---- MODULE Spec2Model ----
(***************************************************************************)
(* A model of rstbuddy's outline pipeline: the file writer with its        *)
(* content comparison and timestamped backups, the two outline converters, *)
(* the two outline parsers, the validator and the two commands that chain  *)
(* them.                                                                   *)
(*                                                                         *)
(* One module holds several specifications, one per component; the         *)
(* variables a specification does not use keep their initial value.        *)
(*   SpecWrite  backup_and_write_file called directly on one destination   *)
(*   SpecConv   convert_outline (both converters) on a bounded outline     *)
(***************************************************************************)
EXTENDS Integers, Sequences, FiniteSets, TLC

VARIABLES
    fs,        \* the files that exist: a function from path to content
    dirs,      \* the directories that exist (ROOT is output_dir)
    clock,     \* the latest datetime.now() read, at second granularity
    last,      \* the most recent backup_and_write_file call and what it met
    outline,   \* the outline handed to convert_outline
    impl,      \* "legacy" (OutlineConverter) or "marko" (MarkoOutlineConverter)
    force,     \* converter.force
    dry_run,   \* converter.dry_run
    pc,        \* where convert_outline stands
    runs,      \* convert_outline calls started so far
    cache,     \* converter._content_cache: the texts converted so far
    log,       \* the write outcomes of the current convert_outline call
    snap,      \* fs, dirs and pc.step when the current convert_outline call started
    pandoc,    \* the kind of generated text pandoc rejects, or "none"
    cli,       \* one run of a command: its inputs, its stage and the calls it made
    doc,       \* the lines of the markdown file
    result,    \* what the parser or the validator returned for doc
    rst        \* one converter's convert_content_to_rst calls: cache, temporary files, latest call

vars == <<fs, dirs, clock, last, outline, impl, force, dry_run, pc, runs, cache, log, snap, pandoc, cli, doc, result, rst>>

convVars == <<outline, impl, force, dry_run, pc, runs, cache, log, snap, pandoc>>

\* What the file-writing and converter specifications leave alone.
notConv == <<cli, doc, result, rst>>

\* What the command specification leaves alone.
notCli == <<fs, dirs, clock, last, convVars, doc, result, rst>>

\* What the parser and validator specifications leave alone.
notDoc == <<fs, dirs, clock, last, convVars, cli, rst>>

\* What the specification of convert_content_to_rst leaves alone.
notRst == <<fs, dirs, clock, last, convVars, cli, doc, result>>

(***************************************************************************)
(* Bounds.                                                                 *)
(***************************************************************************)
MaxClock == 1
MaxNodes == 3
MaxRuns == 2
MaxEntries == 2
MaxLines == 5
MaxValLines == 4
MaxHeadingLen == 5
MaxCalls == 3
MaxIndexNodes == 3
MaxTitleLen == 4
MaxContentLines == 4
MaxNameLen == 3

(***************************************************************************)
(* Paths and contents.                                                     *)
(* A path is a directory, a stem and what follows the stem: ".rst", or     *)
(* ".<timestamp>.bak" for a backup.  A content is its text with the        *)
(* trailing whitespace of every line removed (text) and a flag saying      *)
(* whether the bytes carry trailing whitespace that the text does not (ws).*)
(***************************************************************************)
ROOT == "."

RstPath(dir, stem) == [dir |-> dir, stem |-> stem, kind |-> "rst", ts |-> 0]

\* Path.with_suffix(f".{timestamp}.bak"): the last suffix is replaced.
BackupPath(p, timestamp) == [dir |-> p.dir, stem |-> p.stem, kind |-> "bak", ts |-> timestamp]

Exists(f, p) == p \in DOMAIN f

WriteTo(f, p, c) == [q \in DOMAIN f \cup {p} |-> IF q = p THEN c ELSE f[q]]

\* normalize_content: the lines with their trailing whitespace stripped.
normalize_content(c) == [text |-> c.text, ws |-> FALSE]

\* content_is_different: a missing file is different; else compare normalized.
content_is_different(f, p, new_content) ==
    IF ~Exists(f, p) THEN TRUE
    ELSE normalize_content(f[p]) # normalize_content(new_content)

\* backup_file_if_exists, not in dry run: shutil.copy2 to the timestamped name.
backup_file_if_exists(f, p, now) ==
    IF Exists(f, p) THEN WriteTo(f, BackupPath(p, now), f[p]) ELSE f

\* backup_and_write_file without its comparison: every call writes.
WriteAlways(f, d, p, new_content, frc, dry, now) ==
    [fs |-> IF dry THEN f ELSE WriteTo(f, p, new_content),
     dirs |-> IF dry THEN d ELSE d \cup {p.dir},
     outcome |-> "updated", backup |-> FALSE]

\* backup_and_write_file: the files and directories afterwards, what was
\* reported ("unchanged" for "Skipping ... content unchanged", "updated"
\* otherwise) and whether a backup was reported.  A write makes the parent
\* directory first.
backup_and_write_file(f, d, p, new_content, frc, dry, now) ==
    IF ~content_is_different(f, p, new_content)
    THEN [fs |-> f, dirs |-> d, outcome |-> "unchanged", backup |-> FALSE]
    ELSE LET doBackup == frc /\ Exists(f, p)
             f1 == IF doBackup /\ ~dry THEN backup_file_if_exists(f, p, now) ELSE f
             f2 == IF dry THEN f1 ELSE WriteTo(f1, p, new_content)
             d2 == IF dry THEN d ELSE d \cup {p.dir}
         IN [fs |-> f2, dirs |-> d2, outcome |-> "updated", backup |-> doBackup]

\* What a call leaves in `last`.
CallRecord(f, p, c, frc, dry, now, r) ==
    [called |-> TRUE, path |-> p, content |-> c, force |-> frc, dry_run |-> dry,
     now |-> now, pre |-> f, outcome |-> r.outcome, backup |-> r.backup]

NoCall ==
    [called |-> FALSE, path |-> RstPath(ROOT, "index"), content |-> [text |-> "", ws |-> FALSE],
     force |-> FALSE, dry_run |-> FALSE, now |-> 0, pre |-> <<>>, outcome |-> "", backup |-> FALSE]

(***************************************************************************)
(* SpecWrite: backup_and_write_file called directly, as the tests do, on   *)
(* one destination, in the same second as the call before or later.        *)
(***************************************************************************)
Dest == RstPath(ROOT, "index")

WriteContents ==
    { [text |-> "A", ws |-> FALSE], [text |-> "A", ws |-> TRUE], [text |-> "B", ws |-> FALSE] }

\* No document has been read.
NotRun == [parser |-> "none"]

DocIdle == doc = <<>> /\ result = NotRun

\* No convert_content_to_rst call was made.
RstIdle ==
    rst = [impl |-> "", cache |-> <<>>, temps |-> {}, calls |-> 0, succeeded |-> <<>>,
           call |-> [text |-> "", cached |-> FALSE, invoked |-> FALSE, outcome |-> "", value |-> ""]]

\* No command is running.
CliIdle ==
    cli = [command |-> "", readable |-> TRUE, entries |-> <<>>, parses |-> TRUE, converts |-> TRUE,
           stage |-> "idle", is_valid |-> FALSE, trace |-> <<>>]

ConvIdle ==
    /\ outline = <<>>
    /\ impl = "legacy"
    /\ force = FALSE
    /\ dry_run = FALSE
    /\ pc = [step |-> "idle", i |-> 0, j |-> 0]
    /\ runs = 0
    /\ cache = {}
    /\ log = <<>>
    /\ snap = [fs |-> <<>>, dirs |-> {}, prev |-> "idle"]
    /\ pandoc = "none"

InitWrite ==
    /\ fs = <<>>
    /\ dirs = {}
    /\ clock = 0
    /\ last = NoCall
    /\ ConvIdle
    /\ CliIdle
    /\ DocIdle
    /\ RstIdle

\* What datetime.now() may return when it is read: the second of the latest
\* read or, up to MaxClock, the next one.
Nows == {clock} \cup (IF clock < MaxClock THEN {clock + 1} ELSE {})

\* The clock after a call: backup_file_if_exists is the only reader.
ClockAfter(r, dry, now) == IF r.backup /\ ~dry THEN now ELSE clock

CallWrite ==
    \E c \in WriteContents, frc \in BOOLEAN, dry \in BOOLEAN, now \in Nows :
        LET r == backup_and_write_file(fs, dirs, Dest, c, frc, dry, now)
        IN /\ fs' = r.fs
           /\ dirs' = r.dirs
           /\ clock' = ClockAfter(r, dry, now)
           /\ last' = CallRecord(fs, Dest, c, frc, dry, now, r)
           /\ UNCHANGED <<convVars, notConv>>

NextWrite == CallWrite

SpecWrite == InitWrite /\ [][NextWrite]_vars

(***************************************************************************)
(* SpecConv: convert_outline of OutlineConverter and MarkoOutlineConverter *)
(* on a bounded outline, run up to MaxRuns times on the same output        *)
(* directory.                                                              *)
(*                                                                         *)
(* An outline is its sequence of chapters; a chapter is its folder_name    *)
(* and the filename stems of its sections (the parsers only put numbered   *)
(* sections, whose filename is never empty, into chapter.sections).  The   *)
(* names are the ones the parsers can give: two headings may share a       *)
(* folder ("Chapter 1: A", "Chapter 1: B") or a filename ("1.1 A",         *)
(* "1.2 A"), and a section may be titled "Index".                          *)
(***************************************************************************)
Folders == {"chapter1", "chapter2"}

Stems == {"a", "b", "index"}

ChaptersWith(m) == { [folder_name |-> f, sections |-> s] : f \in Folders, s \in [1..m -> Stems] }

RECURSIVE ChapterSeqs(_)
\* The chapter sequences with n chapters and sections in all.
ChapterSeqs(n) ==
    IF n = 0 THEN { <<>> }
    ELSE UNION { { <<c>> \o rest : c \in ChaptersWith(k - 1), rest \in ChapterSeqs(n - k) } : k \in 1..n }

Outlines == UNION { ChapterSeqs(n) : n \in 0..MaxNodes }

NumChapters(o) == Len(o)

NumSections(o, i) == Len(o[i].sections)

RECURSIVE SumSections(_, _)
SumSections(o, i) == IF i = 0 THEN 0 ELSE NumSections(o, i) + SumSections(o, i - 1)

\* The text a generated file holds: which file of which outline element it
\* is, and the listing it carries (chapter folders, section filenames).
TopText(o, im) ==
    [k |-> "top", i |-> 0, j |-> 0, impl |-> im, toc |-> [n \in 1..Len(o) |-> o[n].folder_name]]

ChapterText(o, im, i) == [k |-> "chapter", i |-> i, j |-> 0, impl |-> im, toc |-> o[i].sections]

SectionText(o, im, i, j) == [k |-> "section", i |-> i, j |-> j, impl |-> im, toc |-> <<>>]

OtherText == [k |-> "other", i |-> 0, j |-> 0, impl |-> "", toc |-> <<>>]

Generated(text) == [text |-> text, ws |-> FALSE]

TopPath == RstPath(ROOT, "index")

ChapterPath(o, i) == RstPath(o[i].folder_name, "index")

SectionPath(o, i, j) == RstPath(o[i].folder_name, o[i].sections[j])

\* Every path convert_outline writes for outline o.
OutPaths(o) ==
    {TopPath} \cup { ChapterPath(o, i) : i \in 1..Len(o) }
              \cup UNION { { SectionPath(o, i, j) : j \in 1..NumSections(o, i) } : i \in 1..Len(o) }

At(step, i, j) == [step |-> step, i |-> i, j |-> j]

\* The loops without the section loop: every chapter's index follows the
\* previous chapter's index.
NextChapterOnly(o, i, j) ==
    IF i < Len(o) THEN At("chapter", i + 1, 0) ELSE At("done", 0, 0)

\* The element whose file is generated after chapter i's section j
\* (j = 0: after the chapter's index): the loops of convert_outline and
\* _generate_chapter_files.
NextAfter(o, i, j) ==
    IF i >= 1 /\ j < NumSections(o, i) THEN At("section", i, j + 1)
    ELSE IF i < Len(o) THEN At("chapter", i + 1, 0)
    ELSE At("done", 0, 0)

CreateDirIgnoringForce(d, frc) == [ok |-> TRUE, dirs |-> d \cup {ROOT}]

\* _create_output_directory: FileExistsError if it exists and not force.
create_output_directory(d, frc) ==
    IF ROOT \in d /\ ~frc THEN [ok |-> FALSE, dirs |-> d]
    ELSE [ok |-> TRUE, dirs |-> d \cup {ROOT}]

DryRunIgnored(dry) == FALSE

\* convert_outline's first test: if self.dry_run, show the plan and return.
ShowsPlanOnly(dry) == dry

\* pandoc is a function of its input: it rejects the texts of one kind, or none.
PandocRejects == {"none", "top", "chapter", "section"}

PandocConverts(text) == text.k # pandoc

PreKinds == {"absent", "empty", "other"}

InitConv ==
    /\ clock = 0
    /\ last = NoCall
    /\ outline \in Outlines
    /\ impl \in {"legacy", "marko"}
    /\ force \in BOOLEAN
    /\ dry_run \in BOOLEAN
    /\ \E pre \in PreKinds :
         /\ dirs = IF pre = "absent" THEN {}
                   ELSE IF pre = "empty" THEN {ROOT}
                   ELSE {ROOT} \cup { outline[i].folder_name : i \in 1..Len(outline) }
         /\ fs = IF pre = "other" THEN [p \in OutPaths(outline) |-> Generated(OtherText)] ELSE <<>>
    /\ pc = At("idle", 0, 0)
    /\ runs = 0
    /\ cache = {}
    /\ log = <<>>
    /\ snap = [fs |-> <<>>, dirs |-> {}, prev |-> "idle"]
    /\ pandoc \in PandocRejects
    /\ CliIdle
    /\ DocIdle
    /\ RstIdle

\* convert_outline, up to and including _create_output_directory.  A new
\* converter (empty cache) or the same one may be used for each call.
ConvertOutline ==
    /\ pc.step \in {"idle", "done", "failed"}
    /\ runs < MaxRuns
    /\ runs' = runs + 1
    /\ snap' = [fs |-> fs, dirs |-> dirs, prev |-> pc.step]
    /\ log' = <<>>
    /\ \E fresh \in BOOLEAN : cache' = IF fresh THEN {} ELSE cache
    /\ IF ShowsPlanOnly(dry_run)
       THEN /\ pc' = At("done", 0, 0)
            /\ dirs' = dirs
       ELSE LET r == create_output_directory(dirs, force)
            IN /\ dirs' = r.dirs
               /\ pc' = IF r.ok THEN At("top", 0, 0) ELSE At("failed", 0, 0)
    /\ UNCHANGED <<fs, clock, last, outline, impl, force, dry_run, pandoc, notConv>>

\* convert_content_to_rst followed by the file's backup_and_write_file: a
\* cached text is not converted again; otherwise pandoc succeeds or the
\* call raises and nothing is written.
ConvertAndWrite(d, p, text, next) ==
    \E now \in Nows :
        IF ~PandocConverts(text) /\ text \notin cache
        THEN /\ pc' = At("failed", pc.i, pc.j)
             /\ dirs' = d
             /\ UNCHANGED <<fs, clock, last, cache, log>>
        ELSE LET r == backup_and_write_file(fs, d, p, Generated(text), force, dry_run, now)
             IN /\ fs' = r.fs
                /\ dirs' = r.dirs
                /\ clock' = ClockAfter(r, dry_run, now)
                /\ last' = CallRecord(fs, p, Generated(text), force, dry_run, now, r)
                /\ cache' = cache \cup {text}
                /\ log' = Append(log, [path |-> p, outcome |-> r.outcome, backup |-> r.backup])
                /\ pc' = next

\* _generate_top_level_index.
GenerateTopLevelIndex ==
    /\ pc.step = "top"
    /\ ConvertAndWrite(dirs, TopPath, TopText(outline, impl), NextAfter(outline, 0, 0))
    /\ UNCHANGED <<outline, impl, force, dry_run, runs, snap, pandoc, notConv>>

\* _generate_chapter_files up to its section loop: chapter_dir.mkdir and
\* _generate_chapter_index.
GenerateChapterIndex ==
    /\ pc.step = "chapter"
    /\ ConvertAndWrite(dirs \cup {outline[pc.i].folder_name},
                       ChapterPath(outline, pc.i), ChapterText(outline, impl, pc.i),
                       NextAfter(outline, pc.i, 0))
    /\ UNCHANGED <<outline, impl, force, dry_run, runs, snap, pandoc, notConv>>

\* _generate_section_file, one turn of the section loop.
GenerateSectionFile ==
    /\ pc.step = "section"
    /\ ConvertAndWrite(dirs, SectionPath(outline, pc.i, pc.j),
                       SectionText(outline, impl, pc.i, pc.j), NextAfter(outline, pc.i, pc.j))
    /\ UNCHANGED <<outline, impl, force, dry_run, runs, snap, pandoc, notConv>>

NextConv ==
    \/ ConvertOutline
    \/ GenerateTopLevelIndex
    \/ GenerateChapterIndex
    \/ GenerateSectionFile

SpecConv == InitConv /\ [][NextConv]_vars

(***************************************************************************)
(* The commands convert-outline and outline-to-rst.  A run has a markdown  *)
(* file that can be read or not, the entries the validator's checks find   *)
(* in it (each "error" or "warning"), and a parser and a converter that    *)
(* return or raise.  trace lists the services called.                      *)
(***************************************************************************)
Commands == {"convert-outline", "outline-to-rst"}

Severities == {"error", "warning"}

EntryLists == UNION { [1..n -> Severities] : n \in 0..MaxEntries }

\* The filter validate_file applies for errors=, warnings= and is_valid.
RECURSIVE OfSeverity(_, _)
OfSeverity(entries, severity) ==
    IF entries = <<>> THEN <<>>
    ELSE (IF Head(entries) = severity THEN <<Head(entries)>> ELSE <<>>)
         \o OfSeverity(Tail(entries), severity)

ValidationResult(entries) ==
    [is_valid |-> Len(OfSeverity(entries, "error")) = 0,
     errors |-> OfSeverity(entries, "error"),
     warnings |-> OfSeverity(entries, "warning")]

\* A command that goes on whatever the validation result says.
ProceedsAlways(validation_result) == TRUE

\* The commands' test of the result: "if not validation_result.is_valid: raise".
Proceeds(validation_result) == validation_result.is_valid

InitCli ==
    /\ fs = <<>>
    /\ dirs = {}
    /\ clock = 0
    /\ last = NoCall
    /\ ConvIdle
    /\ DocIdle
    /\ RstIdle
    /\ \E command \in Commands, readable \in BOOLEAN, entries \in EntryLists,
          parses \in BOOLEAN, converts \in BOOLEAN :
          cli = [command |-> command, readable |-> readable, entries |-> entries,
                 parses |-> parses, converts |-> converts,
                 stage |-> "start", is_valid |-> FALSE, trace |-> <<>>]

\* Step 1: validator.validate_file, which raises FileError on an unreadable
\* file, then the test of is_valid.
CliValidate ==
    /\ cli.stage = "start"
    /\ LET validation_result == ValidationResult(cli.entries)
       IN cli' = [cli EXCEPT
                    !.trace = Append(@, "validate"),
                    !.is_valid = cli.readable /\ validation_result.is_valid,
                    !.stage = IF cli.readable /\ Proceeds(validation_result) THEN "validated" ELSE "aborted"]
    /\ UNCHANGED notCli

\* Step 2: parser.parse_file.
CliParse ==
    /\ cli.stage = "validated"
    /\ cli' = [cli EXCEPT !.trace = Append(@, "parse"),
                          !.stage = IF cli.parses THEN "parsed" ELSE "aborted"]
    /\ UNCHANGED notCli

\* Step 3: converter.convert_outline.
CliConvert ==
    /\ cli.stage = "parsed"
    /\ cli' = [cli EXCEPT !.trace = Append(@, "convert"),
                          !.stage = IF cli.converts THEN "done" ELSE "aborted"]
    /\ UNCHANGED notCli

NextCli ==
    \/ CliValidate
    \/ CliParse
    \/ CliConvert

SpecCli == InitCli /\ [][NextCli]_vars

(***************************************************************************)
(* Heading texts.  A text is a sequence of tokens: a token is one          *)
(* character, or a run of letters kept whole ("Chapter", "Intro").  The    *)
(* regular expressions of the parsers and the validator are matched over   *)
(* tokens as re.match matches them over characters.                        *)
(***************************************************************************)
Digits == {"0", "1", "2"}

UpperLetters == {"A", "B", "T"}

LowerLetters == {"a", "b", "i", "t", "x"}

\* Two characters outside ASCII: U+0130, the capital I with a dot above, is a
\* letter; U+0307, the combining dot above, is a mark and no word character.
DottedCapitalI == "U+0130"

CombiningDot == "U+0307"

\* Runs of letters, more than one character each: capitalized and not.
CapitalWords == {"Chapter", "Appendix", "Prologue", "Introduction", "Intro", "Index", "Section"}

Words == CapitalWords \cup {"chapter", "appendix", "prologue", "introduction", "intro", "index",
                            "section"}

Spaces == {" "}

\* \w
IsWordChar(t) ==
    t \in Digits \cup UpperLetters \cup LowerLetters \cup Words \cup {"_", DottedCapitalI}

\* str.lower on one token.
Lower(t) ==
    CASE t = "A" -> "a" [] t = "B" -> "b" [] t = "T" -> "t"
      [] t = "Chapter" -> "chapter" [] t = "Appendix" -> "appendix"
      [] t = "Prologue" -> "prologue" [] t = "Introduction" -> "introduction"
      [] t = "Intro" -> "intro" [] t = "Index" -> "index" [] t = "Section" -> "section"
      [] OTHER -> t

\* str.lower on a text: the lowercase of U+0130 is the two characters i and
\* U+0307, every other character has a lowercase of one character.
RECURSIVE lower(_)
lower(s) ==
    IF s = <<>> THEN <<>>
    ELSE (IF Head(s) = DottedCapitalI THEN <<"i", CombiningDot>> ELSE <<Lower(Head(s))>>)
         \o lower(Tail(s))

\* s[i:] and s[:i] of Python, over 1-based positions: From(s, i) starts at i.
From(s, i) == SubSeq(s, i, Len(s))

\* The position after the longest run of tokens of `class` that starts at i.
RECURSIVE RunEnd(_, _, _)
RunEnd(s, i, class) ==
    IF i <= Len(s) /\ s[i] \in class THEN RunEnd(s, i + 1, class) ELSE i

\* str.strip: leading and trailing whitespace removed.
RECURSIVE RStrip(_)
RStrip(s) == IF s # <<>> /\ s[Len(s)] \in Spaces THEN RStrip(SubSeq(s, 1, Len(s) - 1)) ELSE s

Strip(s) == RStrip(From(s, RunEnd(s, 1, Spaces)))

\* ^(\d+\.\d+|[A-Z]\.\d+) at the start of s: the position after the match,
\* 0 when there is none.  Every \d+ takes the longest run; the patterns that
\* use this continue with something a digit cannot match, so a shorter run
\* never gives a match the longest one does not.
NumberEnd(s) ==
    LET d1 == RunEnd(s, 1, Digits)
        first == IF d1 > 1 THEN d1
                 ELSE IF Len(s) >= 1 /\ s[1] \in UpperLetters THEN 2 ELSE 0
        d2 == IF first > 0 /\ first <= Len(s) /\ s[first] = "."
              THEN RunEnd(s, first + 1, Digits) ELSE 0
    IN IF first > 0 /\ d2 > first + 1 THEN d2 ELSE 0

\* (?!\.\d) at position e.
NoDotDigitAt(s, e) == ~(e + 1 <= Len(s) /\ s[e] = "." /\ s[e + 1] \in Digits)

\* SECTION_HEADING_PATTERN, ^(\d+\.\d+|[A-Z]\.\d+)(?!\.\d)\s+(.*): whether it
\* matches, group 1 and group 2.
SectionMatch(s) ==
    LET e == NumberEnd(s)
        sp == RunEnd(s, e, Spaces)
        ok == e > 0 /\ NoDotDigitAt(s, e) /\ sp > e
    IN [ok |-> ok,
        number |-> IF ok THEN SubSeq(s, 1, e - 1) ELSE <<>>,
        rest |-> IF ok THEN From(s, sp) ELSE <<>>]

\* ^(\d+\.\d+|[A-Z]\.\d+)(?!\.\d), the test of _find_next_heading_after_chapter.
NumberedNotDeeper(s) == NumberEnd(s) > 0 /\ NoDotDigitAt(s, NumberEnd(s))

\* ^(\d+\.\d+|[A-Z]\.\d+)\b, the test of _find_next_heading_end.
NumberedAtBoundary(s) ==
    LET e == NumberEnd(s) IN e > 0 /\ (e > Len(s) \/ ~IsWordChar(s[e]))

\* (\d+\.\d+\.\d+) and ([A-Z]\.\d+\.\d+) at the start of s: the matched
\* numbering, <<>> when there is none.
DeepNumber(s, letter) ==
    LET e == NumberEnd(s)
        startsRight == Len(s) >= 1 /\ (IF letter THEN s[1] \in UpperLetters ELSE s[1] \in Digits)
        d3 == IF e > 0 /\ e <= Len(s) /\ s[e] = "." THEN RunEnd(s, e + 1, Digits) ELSE 0
    IN IF startsRight /\ e > 0 /\ d3 > e + 1 THEN SubSeq(s, 1, d3 - 1) ELSE <<>>

\* A sanitizer that drops nothing.
KeepEverything(s) == s

\* _sanitize_filename: re.sub(r"[^\w\s-]", "", title).
RECURSIVE DropOthers(_)
DropOthers(s) ==
    IF s = <<>> THEN <<>>
    ELSE (IF IsWordChar(Head(s)) \/ Head(s) \in Spaces \/ Head(s) = "-" THEN <<Head(s)>> ELSE <<>>)
         \o DropOthers(Tail(s))

\* re.sub(r"[-\s]+", "-", filename).
RECURSIVE Hyphenate(_)
Hyphenate(s) ==
    IF s = <<>> THEN <<>>
    ELSE IF Head(s) \in Spaces \cup {"-"}
         THEN <<"-">> \o Hyphenate(From(s, RunEnd(s, 1, Spaces \cup {"-"})))
         ELSE <<Head(s)>> \o Hyphenate(Tail(s))

\* filename.strip("-").
RECURSIVE RStripHyphens(_)
RStripHyphens(s) ==
    IF s # <<>> /\ s[Len(s)] = "-" THEN RStripHyphens(SubSeq(s, 1, Len(s) - 1)) ELSE s

StripHyphens(s) == RStripHyphens(From(s, RunEnd(s, 1, {"-"})))

\* The filename without its .rst extension.
Stem(filename) == SubSeq(filename, 1, Len(filename) - 1)

sanitize_filename(title) ==
    LET cleaned == StripHyphens(Hyphenate(DropOthers(title)))
        lowered == lower(cleaned)
    IN (IF lowered = <<>> THEN <<"section">> ELSE lowered) \o <<".rst">>

(***************************************************************************)
(* Markdown documents.  A document is its lines; a line is blank, a line   *)
(* of paragraph text, or an ATX heading: `indent` spaces (0, or 1 for one  *)
(* to three), `level` # characters, and the heading text.                  *)
(***************************************************************************)
BlankLine == [kind |-> "blank", indent |-> 0, level |-> 0, text |-> <<>>]

TextLine == [kind |-> "text", indent |-> 0, level |-> 0, text |-> <<>>]

HeadingLine(indent, level, text) == [kind |-> "heading", indent |-> indent, level |-> level, text |-> text]

IsHeading(line) == line.kind = "heading"

\* line.startswith("#"): the heading lines that start in column 0.
StartsWithHash(line) == IsHeading(line) /\ line.indent = 0

(***************************************************************************)
(* OutlineParser: the line-based parser.  A content block is the line      *)
(* numbers whose text it joins (0 stands for the "\n\n" a content heading  *)
(* is appended with) between line_start and line_end.                      *)
(***************************************************************************)
ContentBlock(lines, line_start, line_end) ==
    [lines |-> lines, line_start |-> line_start, line_end |-> line_end]

\* _extract_content_block over a document of n lines.
extract_content_block(n, start_line, end_line) ==
    IF start_line > end_line \/ start_line > n
    THEN ContentBlock(<<>>, start_line, end_line)
    ELSE LET end_idx == IF end_line < n THEN end_line ELSE n
         IN ContentBlock([k \in 1..(end_idx - start_line + 1) |-> start_line + k - 1],
                         start_line, end_line)

\* The first index of a Python for loop that passes its test (hits are the
\* indices that pass), `none` when the loop ends without one.
Least(hits, none) ==
    IF hits = {} THEN none ELSE CHOOSE i \in hits : \A k \in hits : i <= k

\* line.strip().startswith("###") followed by the heading text line[3:].strip():
\* for more than three #, the text starts with the # left over.
TextAfterThree(line) == IF line.level = 3 THEN line.text ELSE <<"#">> \o line.text

\* _find_next_heading_end: i ranges over range(start_line, len(lines)), and
\* lines[i] is line i + 1.
find_next_heading_end(lines, start_line) ==
    Least({ i \in start_line..(Len(lines) - 1) :
              /\ IsHeading(lines[i + 1]) /\ lines[i + 1].level >= 3
              /\ NumberedAtBoundary(TextAfterThree(lines[i + 1])) },
          Len(lines))

\* _find_next_heading_after_chapter.
find_next_heading_after_chapter(lines, chapter_start) ==
    Least({ i \in chapter_start..(Len(lines) - 1) :
              /\ IsHeading(lines[i + 1])
              /\ \/ lines[i + 1].level = 2
                 \/ lines[i + 1].level >= 3 /\ NumberedNotDeeper(TextAfterThree(lines[i + 1])) },
          Len(lines))

\* The digits of int(match.group(1)) printed again: leading zeros are gone.
RECURSIVE IntDigits(_)
IntDigits(ds) == IF Len(ds) > 1 /\ Head(ds) = "0" THEN IntDigits(Tail(ds)) ELSE ds

\* _chapter_pattern, ^Chapter\s+(\d+):\s*(.*): group 1, <<>> when no match.
ChapterNumber(text) ==
    LET sp == RunEnd(text, 2, Spaces)
        d == RunEnd(text, sp, Digits)
    IN IF Len(text) >= 1 /\ text[1] = "Chapter" /\ sp > 2 /\ d > sp /\ d <= Len(text) /\ text[d] = ":"
       THEN SubSeq(text, sp, d - 1) ELSE <<>>

\* s.split(sep)[0]
RECURSIVE Before(_, _)
Before(s, sep) ==
    IF s = <<>> \/ Head(s) = sep THEN <<>> ELSE <<Head(s)>> \o Before(Tail(s), sep)

Contains(s, t) == \E n \in 1..Len(s) : s[n] = t

\* The letter part of an "Appendix " heading.
AppendixBaseLetter(text) ==
    LET appendix_part == From(text, 3)
    IN IF Contains(appendix_part, ":") THEN Strip(Before(appendix_part, ":"))
       ELSE IF Contains(appendix_part, ".") THEN Strip(Before(appendix_part, "."))
       ELSE Strip(appendix_part)

\* len(base_letter) == 1 and base_letter.isalpha()
IsOneLetter(s) == Len(s) = 1 /\ s[1] \in UpperLetters \cup LowerLetters \cup {DottedCapitalI}

StartsWith(text, word) == Len(text) >= 1 /\ text[1] = word

StartsWithAppendixSpace(text) == Len(text) >= 2 /\ text[1] = "Appendix" /\ text[2] = " "

\* The folder of a level-2 heading; `unknown` is what the parser falls back to.
FolderName(text, unknown) ==
    IF StartsWith(text, "Prologue") THEN <<"prologue">>
    ELSE IF StartsWith(text, "Introduction") THEN <<"introduction">>
    ELSE IF ChapterNumber(text) # <<>> THEN <<"chapter">> \o IntDigits(ChapterNumber(text))
    ELSE IF StartsWithAppendixSpace(text)
         THEN IF IsOneLetter(AppendixBaseLetter(text))
              THEN <<"appendix">> \o AppendixBaseLetter(text)
              ELSE <<"appendix_unknown">>
    ELSE <<unknown>>

\* OutlineParser._parse_chapter_heading.
parse_chapter_heading(text, line_number) ==
    [title |-> text, line |-> line_number, folder_name |-> FolderName(text, "unknown"),
     content |-> ContentBlock(<<>>, line_number, line_number), sections |-> <<>>]

\* OutlineParser._parse_section_heading: a content heading has filename <<>>.
parse_section_heading(text, line_number) ==
    LET match == SectionMatch(Strip(text))
        title == IF Strip(match.rest) = <<>> THEN <<"Section", " ">> \o match.number
                 ELSE Strip(match.rest)
    IN IF match.ok
       THEN [title |-> title, line |-> line_number, number |-> match.number,
             content |-> ContentBlock(<<>>, line_number, line_number),
             filename |-> sanitize_filename(title)]
       ELSE [title |-> Strip(text), line |-> line_number, number |-> <<>>,
             content |-> ContentBlock(<<>>, line_number, line_number),
             filename |-> <<>>]

\* _ParsingState as _initialize_parsing_state returns it.  current_chapter and
\* current_section hold at most one element: <<>> is None.
ParsingState ==
    [title |-> <<>>, title_line |-> 0, first_h2_line |-> 0, chapter_content_start |-> 0,
     current_chapter |-> <<>>, current_section |-> <<>>, section_content_start |-> 0,
     chapters |-> <<>>]

\* _process_title_heading.
process_title_heading(heading_text, line_num, state) ==
    [state EXCEPT !.title = heading_text, !.title_line = line_num,
                  !.chapter_content_start = line_num]

\* _finalize_section.
finalize_section(lines, state, next_line) ==
    IF state.current_chapter = <<>> \/ state.current_section = <<>> THEN state
    ELSE LET section == [state.current_section[1] EXCEPT
                           !.content = extract_content_block(Len(lines), state.section_content_start,
                                                             next_line - 1)]
         IN [state EXCEPT !.current_chapter[1].sections = Append(@, section),
                          !.current_section = <<>>]

\* _finalize_chapter.
finalize_chapter(lines, state) ==
    IF state.current_chapter = <<>> THEN state
    ELSE LET done ==
               IF Len(state.current_chapter[1].sections) > 0
               THEN IF state.current_section # <<>>
                    THEN finalize_section(lines, state, Len(lines))
                    ELSE state
               ELSE LET next_heading_line ==
                            find_next_heading_after_chapter(lines, state.chapter_content_start)
                    IN [state EXCEPT !.current_chapter[1].content =
                            extract_content_block(Len(lines), state.chapter_content_start,
                                                  next_heading_line - 1)]
         IN [done EXCEPT !.chapters = Append(@, done.current_chapter[1])]

\* _process_chapter_heading.
process_chapter_heading(heading_text, line_num, lines, state) ==
    LET finalized == IF state.current_chapter # <<>> THEN finalize_chapter(lines, state) ELSE state
    IN [finalized EXCEPT
          !.current_chapter = <<parse_chapter_heading(heading_text, line_num)>>,
          !.first_h2_line = IF @ = 0 THEN line_num ELSE @,
          !.chapter_content_start = line_num,
          !.current_section = <<>>]

\* _extract_chapter_content_before_section.
extract_chapter_content_before_section(lines, state, line_num) ==
    IF state.current_chapter = <<>> THEN state
    ELSE [state EXCEPT !.current_chapter[1].content =
              extract_content_block(Len(lines), state.chapter_content_start, line_num - 1)]

\* _handle_content_heading.
handle_content_heading(lines, line_num, state) ==
    IF state.current_chapter = <<>> THEN state
    ELSE LET content_end == find_next_heading_end(lines, line_num)
             content_block == extract_content_block(Len(lines), line_num, content_end)
             old == state.current_chapter[1].content
         IN [state EXCEPT
               !.current_chapter[1].content =
                   IF old.lines # <<>>
                   THEN [old EXCEPT !.lines = @ \o <<0>> \o content_block.lines]
                   ELSE content_block,
               !.current_section = <<>>]

\* _process_section_heading.
process_section_heading(heading_text, line_num, lines, state) ==
    LET finalized == IF state.current_section # <<>>
                     THEN finalize_section(lines, state, line_num) ELSE state
        section == parse_section_heading(heading_text, line_num)
        first == finalized.current_chapter # <<>> /\ Len(finalized.current_chapter[1].sections) = 0
    IN IF section.filename = <<>>
       THEN IF first THEN handle_content_heading(lines, line_num, finalized) ELSE finalized
       ELSE LET before == IF first
                          THEN extract_chapter_content_before_section(lines, finalized, line_num)
                          ELSE finalized
            IN [before EXCEPT !.current_section = <<section>>,
                              !.section_content_start = line_num]

\* _process_heading.
process_heading(line, line_num, lines, state) ==
    IF line.level = 1 /\ state.title = <<>>
    THEN process_title_heading(line.text, line_num, state)
    ELSE IF line.level = 2
    THEN process_chapter_heading(line.text, line_num, lines, state)
    ELSE IF line.level = 3 /\ state.current_chapter # <<>>
    THEN process_section_heading(line.text, line_num, lines, state)
    ELSE state

\* _finalize_remaining_content.
finalize_remaining_content(lines, state) ==
    IF state.current_chapter = <<>> THEN state
    ELSE LET done ==
               IF state.current_section # <<>>
               THEN LET section == [state.current_section[1] EXCEPT
                                      !.content = extract_content_block(
                                          Len(lines), state.section_content_start, Len(lines))]
                    IN [state EXCEPT !.current_chapter[1].sections = Append(@, section)]
               ELSE [state EXCEPT !.current_chapter[1].content =
                        extract_content_block(Len(lines), state.chapter_content_start, Len(lines))]
         IN [done EXCEPT !.chapters = Append(@, done.current_chapter[1])]

\* _extract_introduction_content.
extract_introduction_content(lines, state) ==
    IF state.chapters # <<>> /\ state.title_line # 0 /\ state.first_h2_line # 0
    THEN extract_content_block(Len(lines), state.title_line, state.first_h2_line - 1)
    ELSE ContentBlock(<<>>, 0, 0)

\* The loop of _parse_structure over lines 1..line_num.
RECURSIVE ParseLinesUpTo(_, _)
ParseLinesUpTo(lines, line_num) ==
    IF line_num = 0 THEN ParsingState
    ELSE LET state == ParseLinesUpTo(lines, line_num - 1)
         IN IF StartsWithHash(lines[line_num])
            THEN process_heading(lines[line_num], line_num, lines, state)
            ELSE state

\* OutlineParser._parse_structure.
parse_structure(lines) ==
    LET state == finalize_remaining_content(lines, ParseLinesUpTo(lines, Len(lines)))
    IN [parser |-> "lines", raised |-> FALSE, title |-> state.title,
        introduction_content |-> extract_introduction_content(lines, state),
        chapters |-> state.chapters]

(***************************************************************************)
(* MarkoOutlineParser.  marko.parse gives the document's children: a       *)
(* Heading per ATX heading line (indented up to three spaces or not), one  *)
(* Paragraph per run of text lines and one BlankLine per run of blank      *)
(* lines.  Indices into children are Python's: children[i] is element      *)
(* i + 1 of the sequence.                                                  *)
(***************************************************************************)
Element(line, line_num) ==
    [type |-> IF line.kind = "heading" THEN "Heading"
              ELSE IF line.kind = "text" THEN "Paragraph" ELSE "BlankLine",
     level |-> line.level, text |-> line.text, line |-> line_num]

RECURSIVE ChildrenUpTo(_, _)
ChildrenUpTo(lines, n) ==
    IF n = 0 THEN <<>>
    ELSE IF n > 1 /\ ~IsHeading(lines[n]) /\ lines[n].kind = lines[n - 1].kind
         THEN ChildrenUpTo(lines, n - 1)
         ELSE Append(ChildrenUpTo(lines, n - 1), Element(lines[n], n))

marko_parse(lines) == ChildrenUpTo(lines, Len(lines))

IsHeadingLevel(child, levels) == child.type = "Heading" /\ child.level \in levels

\* MarkoContentBlock and its __post_init__: content is the elements rendered.
MarkoContentBlock(content, start_line, end_line) ==
    [content |-> content, start_line |-> start_line, end_line |-> end_line,
     raised |-> start_line > end_line \/ start_line < 1]

\* MarkoOutlineParser._extract_content_block.
marko_extract_content_block(children, start_idx, end_idx) ==
    IF start_idx >= end_idx
    THEN MarkoContentBlock(<<>>, start_idx + 1, end_idx)
    ELSE MarkoContentBlock([k \in 1..(end_idx - start_idx) |-> start_idx + k], start_idx + 1, end_idx)

\* MarkoOutlineParser._parse_chapter_heading, with MarkoChapter.__post_init__.
marko_parse_chapter_heading(heading_text, line_idx) ==
    [title |-> heading_text, folder_name |-> FolderName(heading_text, "chapter_unknown"),
     content |-> MarkoContentBlock(<<>>, line_idx + 1, line_idx + 1), sections |-> <<>>,
     raised |-> heading_text = <<>>]

\* MarkoSection and its __post_init__: an empty title raises ValueError.
MarkoSection(title, number, content, filename, section_type) ==
    [title |-> title, number |-> number, content |-> content, filename |-> filename,
     section_type |-> section_type, raised |-> title = <<>>]

\* The section that _process_section_heading creates from a match of
\* _section_pattern.
NumberedSection(match, line_idx) ==
    MarkoSection(Strip(match.rest), match.number,
                 MarkoContentBlock(<<>>, line_idx + 1, line_idx + 1),
                 sanitize_filename(Strip(match.rest)), "numbered")

\* The rest of _process_section_heading once the section is created: before
\* is what _extract_chapter_content_before_section extracts, which is used
\* when the section is the chapter's first.
AppendSection(chapter, section, before) ==
    IF section.raised THEN [chapter EXCEPT !.raised = TRUE]
    ELSE [chapter EXCEPT
            !.content = IF chapter.sections = <<>> THEN before ELSE @,
            !.raised = @ \/ (chapter.sections = <<>> /\ before.raised),
            !.sections = Append(@, section)]

\* MarkoOutlineParser._process_section_heading.
marko_process_section_heading(heading_text, line_idx, children, chapter) ==
    IF ~SectionMatch(heading_text).ok THEN chapter
    ELSE AppendSection(chapter, NumberedSection(SectionMatch(heading_text), line_idx),
                       marko_extract_content_block(children, chapter.content.start_line - 1, line_idx))

\* MarkoOutlineParser._finalize_chapter.
marko_finalize_chapter(children, chapter, end_idx) ==
    IF chapter.sections = <<>>
    THEN LET content == marko_extract_content_block(children, chapter.content.start_line - 1, end_idx)
         IN [chapter EXCEPT !.content = content, !.raised = @ \/ content.raised]
    ELSE LET finalized(section) ==
                 IF section.content.start_line = section.content.end_line
                 THEN LET section_end ==
                              Least({ i \in section.content.start_line..(end_idx - 1) :
                                        i < Len(children) /\ IsHeadingLevel(children[i + 1], {1, 2, 3}) },
                                    end_idx)
                      IN [section EXCEPT
                            !.content = marko_extract_content_block(
                                            children, section.content.start_line - 1, section_end)]
                 ELSE section
             sections == [n \in 1..Len(chapter.sections) |-> finalized(chapter.sections[n])]
         IN [chapter EXCEPT
               !.sections = sections,
               !.raised = @ \/ \E n \in 1..Len(sections) : sections[n].content.raised]

\* The chapter loop of MarkoOutlineParser._parse_structure over the children
\* with indices below n.
RECURSIVE MarkoChaptersUpTo(_, _)
MarkoChaptersUpTo(children, n) ==
    IF n = 0 THEN [chapters |-> <<>>, current_chapter |-> <<>>]
    ELSE LET state == MarkoChaptersUpTo(children, n - 1)
             i == n - 1
             child == children[n]
         IN IF IsHeadingLevel(child, {2})
            THEN [chapters |-> IF state.current_chapter # <<>>
                               THEN Append(state.chapters,
                                           marko_finalize_chapter(children, state.current_chapter[1], i))
                               ELSE state.chapters,
                  current_chapter |-> <<marko_parse_chapter_heading(child.text, i)>>]
            ELSE IF IsHeadingLevel(child, {3}) /\ state.current_chapter # <<>>
            THEN [state EXCEPT !.current_chapter =
                     <<marko_process_section_heading(child.text, i, children, state.current_chapter[1])>>]
            ELSE state

\* The end of _parse_structure's chapter loop: the last chapter is finalized.
FinalizeLastChapter(children, state) ==
    IF state.current_chapter # <<>>
    THEN Append(state.chapters,
                marko_finalize_chapter(children, state.current_chapter[1], Len(children)))
    ELSE state.chapters

\* The MarkoBookOutline that parse_file returns, or the ValueError one of the
\* steps raised: a document without title, or a content block or section
\* whose __post_init__ failed.
MarkoBookOutline(title, introduction_content, chapters) ==
    IF \/ title = <<>>
       \/ introduction_content.raised
       \/ \E n \in 1..Len(chapters) : chapters[n].raised
    THEN [parser |-> "marko", raised |-> TRUE, title |-> <<>>,
          introduction_content |-> MarkoContentBlock(<<>>, 1, 1), chapters |-> <<>>]
    ELSE [parser |-> "marko", raised |-> FALSE, title |-> title,
          introduction_content |-> introduction_content, chapters |-> chapters]

\* MarkoOutlineParser._parse_structure; raised when any step raises ValueError.
marko_parse_structure(children) ==
    LET titles == { i \in 0..(Len(children) - 1) : IsHeadingLevel(children[i + 1], {1}) }
        title_end_idx == Least(titles, 0)
    IN MarkoBookOutline(
           IF titles # {} THEN children[title_end_idx + 1].text ELSE <<>>,
           marko_extract_content_block(
               children, title_end_idx + 1,
               Least({ i \in (title_end_idx + 1)..(Len(children) - 1) :
                         IsHeadingLevel(children[i + 1], {2}) },
                     Len(children))),
           FinalizeLastChapter(children, MarkoChaptersUpTo(children, Len(children))))

(***************************************************************************)
(* Parsing: a document of up to MaxLines lines is parsed by either parser. *)
(***************************************************************************)
TitleHeading == <<"T">>

ChapterHeading == <<"Chapter", " ", "1", ":", " ", "a">>

NumberedHeading == <<"1", ".", "1", " ", "a">>

PlainHeading == <<"x">>

ParseLineShapes ==
    { BlankLine, TextLine,
      HeadingLine(0, 1, TitleHeading), HeadingLine(0, 2, ChapterHeading),
      HeadingLine(0, 3, NumberedHeading), HeadingLine(0, 3, PlainHeading),
      HeadingLine(0, 4, PlainHeading) }

DocsOver(shapes, maxLen) == UNION { [1..n -> shapes] : n \in 0..maxLen }

InitParse ==
    /\ fs = <<>>
    /\ dirs = {}
    /\ clock = 0
    /\ last = NoCall
    /\ ConvIdle
    /\ CliIdle
    /\ doc \in DocsOver(ParseLineShapes, MaxLines)
    /\ result = NotRun
    /\ RstIdle

\* OutlineParser.parse_file.
ParseFile ==
    /\ result' = parse_structure(doc)
    /\ UNCHANGED <<doc, notDoc>>

\* MarkoOutlineParser.parse_file.
MarkoParseFile ==
    /\ result' = marko_parse_structure(marko_parse(doc))
    /\ UNCHANGED <<doc, notDoc>>

NextParse ==
    \/ ParseFile
    \/ MarkoParseFile

SpecParse == InitParse /\ [][NextParse]_vars

(***************************************************************************)
(* OutlineValidator.  check_basic_syntax reads the raw lines, the other    *)
(* checks read the headings of marko.parse.  A message is a sequence of    *)
(* tokens: its fixed words as one token each around the text it quotes.    *)
(***************************************************************************)
ValidationError(line_number, message) ==
    [line_number |-> line_number, message |-> message, severity |-> "error"]

\* ^#+\s*(\d+\.\d+\.\d+) or ^#+\s*([A-Z]\.\d+\.\d+) with re.MULTILINE on one
\* line: the # must be the first character of the line.
DeepMatch(line, letter) ==
    IF StartsWithHash(line) THEN DeepNumber(line.text, letter) ELSE <<>>

\* The errors of one finditer loop of _check_basic_syntax, over lines 1..n.
RECURSIVE DeepErrorsUpTo(_, _, _)
DeepErrorsUpTo(lines, n, letter) ==
    IF n = 0 THEN <<>>
    ELSE DeepErrorsUpTo(lines, n - 1, letter)
         \o (IF DeepMatch(lines[n], letter) = <<>> THEN <<>>
             ELSE << ValidationError(n,
                        IF letter
                        THEN <<"Appendix section numbering '">> \o DeepMatch(lines[n], letter)
                             \o <<"' exceeds maximum of two levels. Use format 'X.Y' instead of 'X.Y.Z'">>
                        ELSE <<"Section numbering '">> \o DeepMatch(lines[n], letter)
                             \o <<"' exceeds maximum of two levels. Do not number section headings within chapters.'">>) >>)

\* _check_basic_syntax.
check_basic_syntax(lines) ==
    DeepErrorsUpTo(lines, Len(lines), FALSE) \o DeepErrorsUpTo(lines, Len(lines), TRUE)

\* _extract_headings: the Heading children, in order.
extract_headings(children) == SelectSeq(children, LAMBDA child : child.type = "Heading")

\* The validator's _chapter_pattern,
\* ^(Prologue|Introduction|Chapter\s+\d+:|Appendix\s+[A-Z](?:\.[0-9]+)?).
ChapterPatternMatches(text) ==
    \/ StartsWith(text, "Prologue")
    \/ StartsWith(text, "Introduction")
    \/ ChapterNumber(text) # <<>>
    \/ LET sp == RunEnd(text, 2, Spaces)
       IN StartsWith(text, "Appendix") /\ sp > 2 /\ sp <= Len(text)
          /\ text[sp] \in UpperLetters \cup CapitalWords

\* The decimal digits of a heading level.
LevelToken(level) == CASE level = 1 -> "1" [] level = 2 -> "2" [] level = 3 -> "3" [] OTHER -> "4"

\* _validate_heading_hierarchy without its test of skipped levels: only the
\* first heading is looked at.
FirstHeadingOnly(headings, n) ==
    IF n >= 1 /\ headings[1].level # 1
    THEN << ValidationError(1, <<"Document must start with a level 1 heading (book title)">>) >>
    ELSE <<>>

\* _validate_heading_hierarchy over headings 1..n.
RECURSIVE HierarchyErrorsUpTo(_, _)
HierarchyErrorsUpTo(headings, n) ==
    IF n = 0 THEN <<>>
    ELSE HierarchyErrorsUpTo(headings, n - 1)
         \o (IF n = 1 /\ headings[n].level # 1
             THEN << ValidationError(1, <<"Document must start with a level 1 heading (book title)">>) >>
             ELSE IF n > 1 /\ headings[n].level > headings[n - 1].level + 1
             THEN << ValidationError(1, <<"Invalid heading hierarchy: level ", LevelToken(headings[n].level),
                                           " heading cannot follow level ",
                                           LevelToken(headings[n - 1].level), " heading">>) >>
             ELSE <<>>)

\* _validate_heading_patterns over headings 1..n: a level-2 heading must match
\* the chapter pattern; _validate_section_heading reports nothing.
RECURSIVE PatternErrorsUpTo(_, _)
PatternErrorsUpTo(headings, n) ==
    IF n = 0 THEN <<>>
    ELSE PatternErrorsUpTo(headings, n - 1)
         \o (IF headings[n].level = 2 /\ ~ChapterPatternMatches(headings[n].text)
             THEN << ValidationError(1, <<"Invalid chapter heading: '">> \o headings[n].text
                        \o <<"'. Must start with 'Prologue', 'Introduction', 'Chapter [number]:', or 'Appendix [letter]:'">>) >>
             ELSE <<>>)

\* _check_heading_structure.
check_heading_structure(children) ==
    LET headings == extract_headings(children)
    IN IF headings = <<>>
       THEN << ValidationError(1, <<"Document must contain at least one heading">>) >>
       ELSE HierarchyErrorsUpTo(headings, Len(headings)) \o PatternErrorsUpTo(headings, Len(headings))

\* validate_file, the file read.
validate_file(lines) ==
    LET errors == check_basic_syntax(lines) \o check_heading_structure(marko_parse(lines))
        ofSeverity(severity) == SelectSeq(errors, LAMBDA e : e.severity = severity)
    IN [parser |-> "validator",
        is_valid |-> Len(ofSeverity("error")) = 0,
        errors |-> ofSeverity("error"),
        warnings |-> ofSeverity("warning")]

(***************************************************************************)
(* Validation: a document of up to MaxValLines lines is validated.         *)
(***************************************************************************)
DeepHeading == <<"1", ".", "1", ".", "1", " ", "x">>

DeepAppendixHeading == <<"A", ".", "1", ".", "1", " ", "x">>

ValLineShapes ==
    { BlankLine, TextLine,
      HeadingLine(0, 1, TitleHeading), HeadingLine(0, 2, ChapterHeading),
      HeadingLine(0, 2, PlainHeading), HeadingLine(0, 3, NumberedHeading),
      HeadingLine(0, 3, DeepHeading), HeadingLine(1, 3, DeepHeading),
      HeadingLine(0, 3, DeepAppendixHeading) }

InitVal ==
    /\ fs = <<>>
    /\ dirs = {}
    /\ clock = 0
    /\ last = NoCall
    /\ ConvIdle
    /\ CliIdle
    /\ doc \in DocsOver(ValLineShapes, MaxValLines)
    /\ result = NotRun
    /\ RstIdle

\* OutlineValidator.validate_file.
ValidateFile ==
    /\ result.parser = "none"
    /\ result' = validate_file(doc)
    /\ UNCHANGED <<doc, notDoc>>

NextVal == ValidateFile

SpecVal == InitVal /\ [][NextVal]_vars

(***************************************************************************)
(* Section headings: the text of one level-3 heading, of up to             *)
(* MaxHeadingLen characters, is classified by _parse_section_heading.      *)
(***************************************************************************)
HeadingTokens == {"1", ".", " ", "A", "a"}

HeadingTexts == UNION { [1..n -> HeadingTokens] : n \in 0..MaxHeadingLen }

InitSection ==
    /\ fs = <<>>
    /\ dirs = {}
    /\ clock = 0
    /\ last = NoCall
    /\ ConvIdle
    /\ CliIdle
    /\ doc \in { <<HeadingLine(0, 3, text)>> : text \in HeadingTexts }
    /\ result = NotRun
    /\ RstIdle

\* OutlineParser._parse_section_heading on the heading's text.
ParseSectionHeading ==
    /\ result.parser = "none"
    /\ result' = [parser |-> "section", raised |-> FALSE,
                  section |-> parse_section_heading(doc[1].text, 1)]
    /\ UNCHANGED <<doc, notDoc>>

NextSection == ParseSectionHeading

SpecSection == InitSection /\ [][NextSection]_vars

(***************************************************************************)
(* Filenames: a title of up to MaxTitleLen characters is sanitized by      *)
(* _sanitize_filename, which OutlineParser and MarkoOutlineParser define   *)
(* with the same body.                                                     *)
(***************************************************************************)
TitleTokens == {"A", "a", "_", " ", "-", "!", DottedCapitalI}

Titles == UNION { [1..n -> TitleTokens] : n \in 0..MaxTitleLen }

InitSanitize ==
    /\ fs = <<>>
    /\ dirs = {}
    /\ clock = 0
    /\ last = NoCall
    /\ ConvIdle
    /\ CliIdle
    /\ doc \in { <<HeadingLine(0, 3, title)>> : title \in Titles }
    /\ result = NotRun
    /\ RstIdle

\* _sanitize_filename on the title.
SanitizeFilename ==
    /\ result.parser = "none"
    /\ result' = [parser |-> "sanitize", raised |-> FALSE,
                  filename |-> sanitize_filename(doc[1].text)]
    /\ UNCHANGED <<doc, notDoc>>

NextSanitize == SanitizeFilename

SpecSanitize == InitSanitize /\ [][NextSanitize]_vars

(***************************************************************************)
(* The two commands from document to files: convert-outline validates,     *)
(* parses with OutlineParser and converts with OutlineConverter;           *)
(* outline-to-rst validates, parses with MarkoOutlineParser and converts   *)
(* with MarkoOutlineConverter.  The output directory is new and every      *)
(* conversion succeeds, so each file of the outline is written.  A written *)
(* file is its folder below the output directory (<<>> for the directory   *)
(* itself) and its name.                                                   *)
(***************************************************************************)
File(folder, name) == [folder |-> folder, name |-> name]

\* The files _generate_chapter_files writes for one chapter, in either
\* converter: the chapter index and a file per section with a filename.
ChapterFiles(chapter) ==
    { File(chapter.folder_name, <<"index", ".rst">>) }
    \cup { File(chapter.folder_name, chapter.sections[n].filename) :
             n \in { n \in 1..Len(chapter.sections) : chapter.sections[n].filename # <<>> } }

\* The files convert_outline writes for an outline, in either converter.
OutlineFiles(o) ==
    { File(<<>>, <<"index", ".rst">>) }
    \cup UNION { ChapterFiles(o.chapters[k]) : k \in 1..Len(o.chapters) }

\* What a command leaves behind for a parsed outline: nothing when the
\* parser raised.
WrittenFiles(o) == IF o.raised THEN {} ELSE OutlineFiles(o)

\* The outline a command's parser returns: OutlineParser for convert-outline,
\* MarkoOutlineParser for outline-to-rst.
ParsedBy(command, lines) ==
    IF command = "convert-outline" THEN parse_structure(lines)
    ELSE marko_parse_structure(marko_parse(lines))

InitCommands ==
    /\ fs = <<>>
    /\ dirs = {}
    /\ clock = 0
    /\ last = NoCall
    /\ ConvIdle
    /\ CliIdle
    /\ doc \in DocsOver(ParseLineShapes, MaxLines)
    /\ result = NotRun
    /\ RstIdle

\* Step 1 of either command: the validator; the command ends here when the
\* document is not valid.
CommandValidates ==
    /\ result.parser = "none"
    /\ \E command \in {"convert-outline", "outline-to-rst"} :
           result' = [parser |-> command, raised |-> FALSE, stage |-> "validated",
                      is_valid |-> validate_file(doc).is_valid]
    /\ UNCHANGED <<doc, notDoc>>

\* Step 2: the command's parser.
CommandParses ==
    /\ result.parser \in {"convert-outline", "outline-to-rst"}
    /\ result.stage = "validated" /\ result.is_valid
    /\ result' = [parser |-> result.parser, raised |-> FALSE, stage |-> "parsed",
                  is_valid |-> TRUE, outline |-> ParsedBy(result.parser, doc)]
    /\ UNCHANGED <<doc, notDoc>>

\* Step 3: the command's converter, unless the parser raised.
CommandConverts ==
    /\ result.parser \in {"convert-outline", "outline-to-rst"}
    /\ result.stage = "parsed"
    /\ result' = [parser |-> result.parser, raised |-> FALSE, stage |-> "done",
                  is_valid |-> TRUE, files |-> WrittenFiles(result.outline)]
    /\ UNCHANGED <<doc, notDoc>>

NextCommands ==
    \/ CommandValidates
    \/ CommandParses
    \/ CommandConverts

SpecCommands == InitCommands /\ [][NextCommands]_vars

(***************************************************************************)
(* Names: one level-2 or level-3 heading gets its folder or its filename   *)
(* from either parser, and the converter writes the file it names (the     *)
(* chapter's index.rst, or the section's file in its chapter's folder,     *)
(* here chapter1) with force set, so that an overwrite makes a backup.     *)
(* The heading text is a usual start followed by up to MaxNameLen          *)
(* characters, path separators and dots among them.                        *)
(***************************************************************************)
NameStarts ==
    { <<>>, <<"Prologue">>, <<"Chapter", " ", "1", ":", " ">>, <<"Appendix", " ">>,
      <<"1", ".", "1", " ">> }

NameTokens == {"/", ".", ":", "1", "A", "a"}

NameTexts ==
    { start \o rest : start \in NameStarts,
                      rest \in UNION { [1..n -> NameTokens] : n \in 0..MaxNameLen } }

\* The folder and the filename a parser gives for a heading line, and
\* whether the converter has a file to write for it: a Marko chapter or
\* section with an empty title raises, and a content heading has no file.
NameByLines(line) ==
    IF line.level = 2
    THEN [by |-> "lines", folder_name |-> parse_chapter_heading(line.text, 1).folder_name,
          filename |-> <<"index", ".rst">>, written |-> TRUE]
    ELSE [by |-> "lines", folder_name |-> <<"chapter", "1">>,
          filename |-> parse_section_heading(line.text, 1).filename,
          written |-> parse_section_heading(line.text, 1).filename # <<>>]

NameByMarko(line) ==
    IF line.level = 2
    THEN [by |-> "marko", folder_name |-> marko_parse_chapter_heading(line.text, 0).folder_name,
          filename |-> <<"index", ".rst">>,
          written |-> ~marko_parse_chapter_heading(line.text, 0).raised]
    ELSE IF SectionMatch(line.text).ok
    THEN [by |-> "marko", folder_name |-> <<"chapter", "1">>,
          filename |-> NumberedSection(SectionMatch(line.text), 0).filename,
          written |-> ~NumberedSection(SectionMatch(line.text), 0).raised]
    ELSE [by |-> "marko", folder_name |-> <<"chapter", "1">>, filename |-> <<>>,
          written |-> FALSE]

InitNames ==
    /\ fs = <<>>
    /\ dirs = {}
    /\ clock = 0
    /\ last = NoCall
    /\ ConvIdle
    /\ CliIdle
    /\ doc \in { <<HeadingLine(0, level, text)>> : level \in {2, 3}, text \in NameTexts }
    /\ result = NotRun
    /\ RstIdle

\* OutlineParser on the heading.
NameHeading ==
    /\ result.parser = "none"
    /\ result' = [parser |-> "names", raised |-> FALSE, named |-> NameByLines(doc[1])]
    /\ UNCHANGED <<doc, notDoc>>

\* MarkoOutlineParser on the heading.
MarkoNameHeading ==
    /\ result.parser = "none"
    /\ result' = [parser |-> "names", raised |-> FALSE, named |-> NameByMarko(doc[1])]
    /\ UNCHANGED <<doc, notDoc>>

\* The converter writes the named file: chapter_dir / "index.rst" or
\* chapter_dir / section.filename, through backup_and_write_file.
WriteNamedFile ==
    /\ result.parser = "names"
    /\ result.named.written
    /\ \E c \in { c \in WriteContents : ~c.ws } :
           LET p == RstPath(result.named.folder_name, Stem(result.named.filename))
               r == backup_and_write_file(fs, dirs, p, c, TRUE, FALSE, clock)
           IN /\ fs' = r.fs
              /\ dirs' = r.dirs
              /\ last' = CallRecord(fs, p, c, TRUE, FALSE, clock, r)
    /\ UNCHANGED <<clock, convVars, cli, doc, result, rst>>

NextNames ==
    \/ NameHeading
    \/ MarkoNameHeading
    \/ WriteNamedFile

SpecNames == InitNames /\ [][NextNames]_vars

(***************************************************************************)
(* Heading filters: filter_section_heading and                             *)
(* filter_chapter_heading_marko take a content block of up to              *)
(* MaxContentLines lines and the title of the heading that introduced it.  *)
(* A line of text carries its characters in `text`: a row of dashes is     *)
(* <<"-">> and a row of equals signs <<"=">>.  The filtered content is     *)
(* the numbers of the lines that are joined again.                         *)
(***************************************************************************)
FilterTitle == <<"Intro">>

Text(text) == [kind |-> "text", indent |-> 0, level |-> 0, text |-> text]

ContentLineShapes ==
    { Text(FilterTitle), HeadingLine(0, 3, FilterTitle), HeadingLine(0, 2, FilterTitle),
      HeadingLine(0, 3, <<"1", ".", "1", " ">> \o FilterTitle),
      HeadingLine(0, 3, <<"x", " ">> \o FilterTitle),
      Text(<<"-">>), Text(<<"=">>), Text(<<"x">>) }

\* stripped_line.endswith(f" {clean_title}") for the text of a heading line.
EndsWithTitle(text, clean_title) ==
    /\ Len(text) > Len(clean_title)
    /\ SubSeq(text, Len(text) - Len(clean_title), Len(text)) = <<" ">> \o clean_title

\* The tests of filter_section_heading that skip a line as the heading; no
\* line of a content block has more than three # characters here.
SkippedAsSectionHeading(line, section_title) ==
    \/ line.kind = "text" /\ line.text = section_title
    \/ IsHeading(line) /\ line.level \in 1..3 /\ line.text = section_title
    \/ IsHeading(line) /\ line.level \in 1..3 /\ EndsWithTitle(line.text, section_title)

\* The test of filter_chapter_heading_marko that skips a line as the heading.
SkippedAsChapterHeading(line, chapter_title) ==
    \/ line.kind = "text" /\ line.text = chapter_title
    \/ IsHeading(line) /\ line.level \in 1..2 /\ line.text = chapter_title

\* re.match(r"^[\-]+$", stripped_line) and re.match(r"^[=\-]+$", stripped_line).
IsUnderline(line, marks) == line.kind = "text" /\ line.text # <<>> /\ line.text[1] \in marks

\* The loop of either filter over lines 1..n: the lines kept so far and the
\* flag heading_found.
RECURSIVE FilterUpTo(_, _, _, _)
FilterUpTo(function, lines, title, n) ==
    IF n = 0 THEN [filtered_lines |-> <<>>, heading_found |-> FALSE]
    ELSE LET state == FilterUpTo(function, lines, title, n - 1)
             line == lines[n]
         IN IF (IF function = "section" THEN SkippedAsSectionHeading(line, title)
                ELSE SkippedAsChapterHeading(line, title))
            THEN [state EXCEPT !.heading_found = TRUE]
            ELSE IF state.heading_found
                    /\ IsUnderline(line, IF function = "section" THEN {"-"} ELSE {"=", "-"})
            THEN [state EXCEPT !.heading_found = FALSE]
            ELSE [state EXCEPT !.filtered_lines = Append(@, n)]

filter_section_heading(content, section_title) ==
    FilterUpTo("section", content, section_title, Len(content)).filtered_lines

filter_chapter_heading_marko(content, chapter_title) ==
    FilterUpTo("chapter", content, chapter_title, Len(content)).filtered_lines

InitFilter ==
    /\ fs = <<>>
    /\ dirs = {}
    /\ clock = 0
    /\ last = NoCall
    /\ ConvIdle
    /\ CliIdle
    /\ doc \in DocsOver(ContentLineShapes, MaxContentLines)
    /\ result = NotRun
    /\ RstIdle

FilterSectionHeading ==
    /\ result.parser = "none"
    /\ result' = [parser |-> "filter", raised |-> FALSE, function |-> "section",
                  filtered_lines |-> filter_section_heading(doc, FilterTitle)]
    /\ UNCHANGED <<doc, notDoc>>

FilterChapterHeadingMarko ==
    /\ result.parser = "none"
    /\ result' = [parser |-> "filter", raised |-> FALSE, function |-> "chapter",
                  filtered_lines |-> filter_chapter_heading_marko(doc, FilterTitle)]
    /\ UNCHANGED <<doc, notDoc>>

NextFilter ==
    \/ FilterSectionHeading
    \/ FilterChapterHeadingMarko

SpecFilter == InitFilter /\ [][NextFilter]_vars

(***************************************************************************)
(* convert_content_to_rst: OutlineConverter's method ("legacy") and the    *)
(* function of rst_utils that MarkoOutlineConverter calls with its         *)
(* _content_cache ("marko").  One converter makes up to MaxCalls calls.    *)
(* A call meets one behaviour of its environment: everything works, a      *)
(* temporary file cannot be created, pandoc exits with an error or is not  *)
(* found, or the result cannot be read.  What pandoc writes is not fixed   *)
(* by the text (variant) and may carry generated anchors.                  *)
(***************************************************************************)
ContentTexts == {"", " ", "a", "b"}

\* not markdown_content.strip()
IsBlank(markdown_content) == markdown_content \in {"", " "}

PandocOutputs == { [variant |-> v, anchors |-> a] : v \in {1, 2}, a \in BOOLEAN }

\* The empty string that is returned for blank content.
EmptyRst == [variant |-> 0, anchors |-> FALSE]

Behaviours == {"ok", "no_md", "no_rst", "fails", "not_found", "unreadable"}

\* tempfile.NamedTemporaryFile(suffix=..., delete=False) of call n.
TempFile(n, suffix) == [call |-> n, suffix |-> suffix]

\* remove_pandoc_anchors.
remove_pandoc_anchors(rst_content) == [rst_content EXCEPT !.anchors = FALSE]

\* A call that stores nothing.
StoreNothing(content_cache, markdown_content, rst_content) == content_cache

\* content_cache[markdown_content] = rst_content
StoreInCache(content_cache, markdown_content, rst_content) ==
    [t \in DOMAIN content_cache \cup {markdown_content} |->
        IF t = markdown_content THEN rst_content ELSE content_cache[t]]

\* convert_content_to_rst as call n of a converter with cache content_cache
\* and temporary files temps, under behaviour env with pandoc writing out:
\* the cache and the temporary files afterwards, whether pandoc was run, and
\* what the call returned or raised.
convert_content_to_rst(im, markdown_content, content_cache, temps, n, env, out) ==
    LET md == TempFile(n, "md")
        both == {TempFile(n, "md"), TempFile(n, "rst")}
        Returns(c, t, invoked, value) ==
            [cache |-> c, temps |-> t, invoked |-> invoked, outcome |-> "returned", value |-> value]
        Raises(t, invoked, error) ==
            [cache |-> content_cache, temps |-> t, invoked |-> invoked, outcome |-> error,
             value |-> EmptyRst]
        rst_content == IF im = "marko" THEN remove_pandoc_anchors(out) ELSE out
    IN IF IsBlank(markdown_content) THEN Returns(content_cache, temps, FALSE, EmptyRst)
       ELSE IF markdown_content \in DOMAIN content_cache
       THEN Returns(content_cache, temps, FALSE, content_cache[markdown_content])
       ELSE IF env = "no_md" THEN Raises(temps, FALSE, "FileError")
       \* temp_md_path.unlink() succeeds, temp_rst_path is not bound yet
       ELSE IF env = "no_rst" THEN Raises((temps \cup {md}) \ {md}, FALSE, "UnboundLocalError")
       ELSE IF env \in {"fails", "not_found", "unreadable"}
       THEN Raises((temps \cup both) \ both, TRUE, "FileError")
       \* only rst_utils has the finally clause that removes the files
       ELSE Returns(StoreInCache(content_cache, markdown_content, rst_content),
                    IF im = "marko" THEN (temps \cup both) \ both ELSE temps \cup both,
                    TRUE, rst_content)

InitRst ==
    /\ fs = <<>>
    /\ dirs = {}
    /\ clock = 0
    /\ last = NoCall
    /\ ConvIdle
    /\ CliIdle
    /\ DocIdle
    /\ \E im \in {"legacy", "marko"} :
         rst = [impl |-> im, cache |-> <<>>, temps |-> {}, calls |-> 0,
                succeeded |-> [t \in ContentTexts |-> 0],
                call |-> [text |-> "", cached |-> FALSE, invoked |-> FALSE, outcome |-> "",
                          value |-> EmptyRst]]

\* One call of convert_content_to_rst.  succeeded counts, per text, the runs
\* of pandoc that the call went on to return; call describes the latest call.
ConvertContentToRst ==
    /\ rst.calls < MaxCalls
    /\ \E text \in ContentTexts, env \in Behaviours, out \in PandocOutputs :
         LET r == convert_content_to_rst(rst.impl, text, rst.cache, rst.temps, rst.calls + 1, env, out)
         IN rst' = [rst EXCEPT
                      !.cache = r.cache,
                      !.temps = r.temps,
                      !.calls = @ + 1,
                      !.succeeded[text] = @ + (IF r.invoked /\ r.outcome = "returned" THEN 1 ELSE 0),
                      !.call = [text |-> text, cached |-> text \in DOMAIN rst.cache,
                                invoked |-> r.invoked, outcome |-> r.outcome, value |-> r.value]]
    /\ UNCHANGED notRst

NextRst == ConvertContentToRst

SpecRst == InitRst /\ [][NextRst]_vars

(***************************************************************************)
(* The index files.  convert_outline of either converter on an outline of  *)
(* up to MaxIndexNodes chapters and sections, into an absent directory,    *)
(* with pandoc working.  A chapter has its heading_type and folder_name    *)
(* as _parse_chapter_heading gives them and may have content; a section    *)
(* has its number and filename, both empty for a content heading.  A file  *)
(* is its lines: an entry of a toctree, "   {dir}/{s}" or "   {s}", or     *)
(* another line.                                                           *)
(***************************************************************************)
ChapterKinds ==
    { [heading_type |-> "prologue", folder_name |-> "prologue", content |-> FALSE],
      [heading_type |-> "introduction", folder_name |-> "introduction", content |-> TRUE],
      [heading_type |-> "chapter", folder_name |-> "chapter1", content |-> TRUE],
      [heading_type |-> "chapter", folder_name |-> "chapter_unknown", content |-> FALSE],
      [heading_type |-> "appendix", folder_name |-> "appendixA", content |-> FALSE] }

SectionKinds ==
    { [number |-> <<1, 1>>, filename |-> "a"], [number |-> <<1, 2>>, filename |-> "b"],
      [number |-> <<>>, filename |-> ""] }

IndexChapters(m) ==
    { [heading_type |-> c.heading_type, folder_name |-> c.folder_name, content |-> c.content,
       sections |-> sections] : c \in ChapterKinds, sections \in [1..m -> SectionKinds] }

RECURSIVE IndexChapterSeqs(_)
\* The chapter sequences with n chapters and sections in all.
IndexChapterSeqs(n) ==
    IF n = 0 THEN { <<>> }
    ELSE UNION { { <<c>> \o rest : c \in IndexChapters(k - 1), rest \in IndexChapterSeqs(n - k) } :
                 k \in 1..n }

IndexOutlines ==
    { [introduction_content |-> intro, chapters |-> chapters] :
          intro \in BOOLEAN, chapters \in UNION { IndexChapterSeqs(n) : n \in 0..MaxIndexNodes } }

Line(s) == [kind |-> "line", dir |-> "", s |-> s]

Entry(dir, s) == [kind |-> "entry", dir |-> dir, s |-> s]

\* content.append(rst_content); content.append("") when the block is not blank.
Converted(present) == IF present THEN << Line("<rst_content>"), Line("") >> ELSE <<>>

\* The toctree without its test: the caption is emitted for no members too.
ToctreeAlways(caption, members) ==
    << Line(".. toctree::"), Line(caption), Line("   :hidden:"), Line("") >>
    \o [n \in 1..Len(members) |-> Entry(members[n].folder_name, "index")]
    \o << Line("") >>

\* One toctree of MarkoOutlineConverter's top-level index, emitted when it
\* has members.
Toctree(caption, members) ==
    IF members = <<>> THEN <<>>
    ELSE << Line(".. toctree::"), Line(caption), Line("   :hidden:"), Line("") >>
         \o [n \in 1..Len(members) |-> Entry(members[n].folder_name, "index")]
         \o << Line("") >>

\* The lines of the top-level index.rst that _generate_top_level_index builds.
top_level_index(o, im) ==
    << Line("#"), Line("title"), Line("#"), Line("") >>
    \o Converted(o.introduction_content)
    \o (IF im = "marko"
        THEN Toctree("   :caption: Front Matter",
                     SelectSeq(o.chapters, LAMBDA c : c.heading_type \in {"introduction", "prologue"}))
             \o Toctree("   :caption: Chapters",
                        SelectSeq(o.chapters, LAMBDA c : c.heading_type \notin {"appendix", "introduction", "prologue"}))
             \o Toctree("   :caption: Appendices",
                        SelectSeq(o.chapters, LAMBDA c : c.heading_type = "appendix"))
        ELSE << Line("Table of Contents"), Line("================"), Line(""),
                Line(".. toctree::"), Line("   :maxdepth: 2"), Line("   :numbered:"), Line("") >>
             \o [n \in 1..Len(o.chapters) |-> Entry(o.chapters[n].folder_name, "index")]
             \o << Line("") >>)

\* The toctree of a chapter index: the sections with a filename, as they
\* come in chapter.sections.
SectionToctree(options, sections) ==
    LET actual_sections == SelectSeq(sections, LAMBDA section : section.filename # "")
    IN IF actual_sections = <<>> THEN <<>>
       ELSE << Line(".. toctree::") >> \o options \o << Line("") >>
            \o [n \in 1..Len(actual_sections) |-> Entry("", actual_sections[n].filename)]
            \o << Line("") >>

\* The lines of a chapter's index.rst that _generate_chapter_index builds:
\* MarkoOutlineConverter puts the toctree before the content,
\* OutlineConverter after it.
chapter_index(chapter, im) ==
    << Line("clean_title"), Line("="), Line("") >>
    \o (IF im = "marko"
        THEN SectionToctree(<< Line("   :hidden:") >>, chapter.sections) \o Converted(chapter.content)
        ELSE Converted(chapter.content)
             \o SectionToctree(<< Line("   :maxdepth: 1"), Line("   :hidden:") >>, chapter.sections))

\* The lines of a section file.
section_file(section) == << Line("clean_title"), Line("-"), Line("") >>

RECURSIVE WriteSectionFiles(_, _, _, _)
\* The section loop of _generate_chapter_files over the first n sections:
\* the files and directories afterwards.
WriteSectionFiles(f, d, chapter, n) ==
    IF n = 0 THEN [fs |-> f, dirs |-> d]
    ELSE LET before == WriteSectionFiles(f, d, chapter, n - 1)
             section == chapter.sections[n]
         IN IF section.filename = "" THEN before
            ELSE LET r == backup_and_write_file(before.fs, before.dirs,
                                                RstPath(chapter.folder_name, section.filename),
                                                Generated(section_file(section)), force, dry_run, clock)
                 IN [fs |-> r.fs, dirs |-> r.dirs]

InitIndex ==
    /\ fs = <<>>
    /\ dirs = {}
    /\ clock = 0
    /\ last = NoCall
    /\ outline \in IndexOutlines
    /\ impl \in {"legacy", "marko"}
    /\ force = FALSE
    /\ dry_run = FALSE
    /\ pc = At("idle", 0, 0)
    /\ runs = 0
    /\ cache = {}
    /\ log = <<>>
    /\ snap = [fs |-> <<>>, dirs |-> {}, prev |-> "idle"]
    /\ pandoc = "none"
    /\ CliIdle
    /\ DocIdle
    /\ RstIdle

\* convert_outline up to its chapter loop: _create_output_directory and
\* _generate_top_level_index.
WriteTopLevelIndex ==
    /\ pc.step = "idle"
    /\ LET created == create_output_directory(dirs, force)
           r == backup_and_write_file(fs, created.dirs, TopPath,
                                      Generated(top_level_index(outline, impl)), force, dry_run, clock)
       IN /\ created.ok
          /\ fs' = r.fs
          /\ dirs' = r.dirs
    /\ cache' = cache \cup (IF outline.introduction_content THEN {At("top", 0, 0)} ELSE {})
    /\ runs' = runs + 1
    /\ pc' = IF Len(outline.chapters) > 0 THEN At("chapter", 1, 0) ELSE At("done", 0, 0)
    /\ UNCHANGED <<clock, last, outline, impl, force, dry_run, log, snap, pandoc, notConv>>

\* _generate_chapter_files for chapter pc.i: chapter_dir.mkdir, the chapter's
\* index and its section files.
WriteChapterFiles ==
    /\ pc.step = "chapter"
    /\ LET chapter == outline.chapters[pc.i]
           r == backup_and_write_file(fs, dirs \cup {chapter.folder_name},
                                      RstPath(chapter.folder_name, "index"),
                                      Generated(chapter_index(chapter, impl)), force, dry_run, clock)
           written == WriteSectionFiles(r.fs, r.dirs, chapter, Len(chapter.sections))
       IN /\ fs' = written.fs
          /\ dirs' = written.dirs
          /\ cache' = cache \cup (IF chapter.content THEN {At("chapter", pc.i, 0)} ELSE {})
    /\ pc' = IF pc.i < Len(outline.chapters) THEN At("chapter", pc.i + 1, 0) ELSE At("done", 0, 0)
    /\ UNCHANGED <<clock, last, outline, impl, force, dry_run, runs, log, snap, pandoc, notConv>>

NextIndex ==
    \/ WriteTopLevelIndex
    \/ WriteChapterFiles

SpecIndex == InitIndex /\ [][NextIndex]_vars

(***************************************************************************)
(* Properties of backup_and_write_file, over the record of the latest call *)
(* (last) and the file system it left (fs).                                *)
(***************************************************************************)
Backups(f, p) == { q \in DOMAIN f : q.kind = "bak" /\ q.dir = p.dir /\ q.stem = p.stem }

NormalizedEqual(f, p, c) == Exists(f, p) /\ normalize_content(f[p]) = normalize_content(c)

Overwrites == last.called /\ last.force /\ ~last.dry_run
              /\ Exists(last.pre, last.path)
              /\ ~NormalizedEqual(last.pre, last.path, last.content)

\* C4: an overwrite with force=true of a destination whose normalized content
\* differs leaves exactly one new .bak sibling, which holds the previous
\* content, and the destination holds the new content.
C4_OverwriteLeavesOneNewBackup ==
    Overwrites =>
        /\ fs[last.path] = last.content
        /\ \E b \in Backups(fs, last.path) \ DOMAIN last.pre :
              /\ fs[b] = last.pre[last.path]
              /\ DOMAIN fs = DOMAIN last.pre \cup {b}
              /\ \A q \in DOMAIN last.pre : q # last.path => fs[q] = last.pre[q]

Completed == runs >= 1 /\ pc.step = "done"

\* C1: with dry_run=true convert_outline mutates nothing: the output
\* directory is not created, no file is written and no backup is made, for
\* every outline, either force and both converters.
C1_DryRunMutatesNothing ==
    (runs >= 1 /\ dry_run) => (fs = snap.fs /\ dirs = snap.dirs /\ log = <<>>)

\* C1's case: a dry run over an outline with a chapter and a section has
\* returned, the output directory being absent.
C1_Witness ==
    /\ Completed /\ dry_run /\ force
    /\ Len(outline) >= 1 /\ SumSections(outline, Len(outline)) >= 1
    /\ dirs = {} /\ fs = <<>>

\* C2: the second of two successive convert_outline runs with force=true and
\* dry_run=false leaves every file's content as the first run left it, skips
\* every write as unchanged and creates no backup.
C2_SecondRunChangesNothing ==
    (runs >= 2 /\ Completed /\ snap.prev = "done" /\ force /\ ~dry_run) =>
        /\ fs = snap.fs
        /\ \A n \in 1..Len(log) : log[n].outcome = "unchanged" /\ ~log[n].backup

\* C3: when the output directory exists and force=false, dry_run=false,
\* convert_outline fails before anything is written: no file or directory is
\* created, modified or backed up.
C3_ExistingDirWithoutForceFails ==
    (runs >= 1 /\ ROOT \in snap.dirs /\ ~force /\ ~dry_run) =>
        /\ pc.step = "failed"
        /\ fs = snap.fs /\ dirs = snap.dirs /\ log = <<>>

\* C3's case: the call has failed on an existing directory that holds files,
\* for an outline with a chapter.
C3_Witness ==
    /\ runs >= 1 /\ ROOT \in snap.dirs /\ ~force /\ ~dry_run
    /\ pc.step = "failed" /\ log = <<>>
    /\ Len(outline) >= 1 /\ snap.fs # <<>> /\ fs = snap.fs

\* C9: after a non-dry-run conversion into a previously absent output
\* directory the tree holds exactly 1 + N + sum(Mi) files: the top-level
\* index, one index per chapter and one file per numbered section.
C9_FileCount ==
    (runs = 1 /\ Completed /\ ~dry_run /\ snap.dirs = {}) =>
        Cardinality(DOMAIN fs) = 1 + NumChapters(outline) + SumSections(outline, Len(outline))

(***************************************************************************)
(* Properties of the commands.                                             *)
(***************************************************************************)
HasError(entries) == \E n \in 1..Len(entries) : entries[n] = "error"

\* C6: in both commands the services run in the order validate, parse,
\* convert, and neither the parser nor the converter is invoked when the
\* validation result holds an error-severity entry.
C6_ValidateParseConvert ==
    /\ cli.trace \in { <<>>, <<"validate">>, <<"validate", "parse">>,
                       <<"validate", "parse", "convert">> }
    /\ HasError(cli.entries) => cli.trace \in { <<>>, <<"validate">> }

\* C6's case: validation found an error beside a warning, and the command
\* stopped after the validator.
C6_Witness ==
    /\ cli.command = "outline-to-rst" /\ cli.readable
    /\ HasError(cli.entries) /\ Len(OfSeverity(cli.entries, "warning")) >= 1
    /\ cli.parses /\ cli.converts
    /\ cli.stage = "aborted" /\ cli.trace = <<"validate">>

(***************************************************************************)
(* Properties of the parsers, against the headings read off the document:  *)
(* the level-2 heading lines and, under each, the level-3 heading lines    *)
(* whose text matches the two-level numbering pattern.                     *)
(***************************************************************************)
Ascending(S) == [n \in 1..Cardinality(S) |-> CHOOSE x \in S : Cardinality({y \in S : y < x}) = n - 1]

HeadingLines(lines, level) == { n \in 1..Len(lines) : IsHeading(lines[n]) /\ lines[n].level = level }

\* One title, above every other heading.
OneTitle(lines) ==
    /\ Cardinality(HeadingLines(lines, 1)) = 1
    /\ \A n \in 1..Len(lines) : IsHeading(lines[n]) => \E t \in HeadingLines(lines, 1) : t <= n

NumberedUnder(lines, h) ==
    { n \in HeadingLines(lines, 3) :
        /\ SectionMatch(lines[n].text).ok
        /\ h < n
        /\ \A k \in HeadingLines(lines, 2) : k > h => n < k }

\* The outline the document calls for: per chapter, the line of its heading
\* and the lines of its numbered sections, in document order.
ExpectedOutline(lines) ==
    LET chapters == Ascending(HeadingLines(lines, 2))
    IN [i \in 1..Len(chapters) |->
          [line |-> chapters[i], sections |-> Ascending(NumberedUnder(lines, chapters[i]))]]

\* The outline OutlineParser returned, by heading lines.
LineOutline(r) ==
    [i \in 1..Len(r.chapters) |->
       [line |-> r.chapters[i].line,
        sections |-> [j \in 1..Len(r.chapters[i].sections) |-> r.chapters[i].sections[j].line]]]

\* The outline MarkoOutlineParser returned, by heading lines: a block that
\* starts at a heading has start_line - 1 for the heading's index.
MarkoOutline(lines, r) ==
    LET children == marko_parse(lines)
    IN [i \in 1..Len(r.chapters) |->
          [line |-> children[r.chapters[i].content.start_line].line,
           sections |-> [j \in 1..Len(r.chapters[i].sections) |->
                           children[r.chapters[i].sections[j].content.start_line].line]]]

\* C7: for a document with one title, N level-2 headings and Mi numbered
\* level-3 headings under the i-th, MarkoOutlineParser returns exactly N
\* chapters in document order, the i-th with exactly Mi sections in document
\* order, whatever unnumbered level-3 or deeper headings are interleaved.
C7_MarkoChaptersAndSections ==
    (result.parser = "marko" /\ OneTitle(doc)) =>
        (~result.raised /\ MarkoOutline(doc, result) = ExpectedOutline(doc))

\* C8: for a document with one title, N level-2 headings and Mi numbered
\* level-3 headings under the i-th, the line-based OutlineParser returns
\* exactly N chapters in document order, the i-th with exactly Mi sections in
\* document order, for the last chapter and the ones before it alike.
C8_LineChaptersAndSections ==
    (result.parser = "lines" /\ OneTitle(doc)) =>
        LineOutline(result) = ExpectedOutline(doc)

(***************************************************************************)
(* Properties of the validator.                                            *)
(***************************************************************************)
\* The three-level numbering a heading text begins with, <<>> when none.
ThreeLevelNumbering(text) ==
    IF DeepNumber(text, FALSE) # <<>> THEN DeepNumber(text, FALSE) ELSE DeepNumber(text, TRUE)

\* The message contains the string.
ContainsString(message, string) ==
    \E k \in 1..(Len(message) - Len(string) + 1) : SubSeq(message, k, k + Len(string) - 1) = string

\* C10: for every heading whose text begins with a three-level numbering
\* (digits.digits.digits or letter.digits.digits) validate_file returns
\* is_valid=false with an error whose message contains that numbering.
C10_ThreeLevelNumberingRejected ==
    result.parser = "validator" =>
        \A n \in 1..Len(doc) :
            (IsHeading(doc[n]) /\ ThreeLevelNumbering(doc[n].text) # <<>>) =>
                /\ ~result.is_valid
                /\ \E e \in 1..Len(result.errors) :
                      ContainsString(result.errors[e].message, ThreeLevelNumbering(doc[n].text))

(***************************************************************************)
(* The classification of level-3 headings.                                 *)
(***************************************************************************)
\* C11: a level-3 heading whose text starts with a two-level number that is
\* not followed by a further .digits becomes a numbered section with that
\* number and a non-empty filename, titled "Section {number}" when nothing
\* follows the number; a heading whose number is followed by another .digits
\* becomes a content heading with empty number and filename.
C11_SectionClassification ==
    result.parser = "section" =>
        LET text == Strip(doc[1].text)
            e == NumberEnd(text)
            section == result.section
        IN /\ (e > 0 /\ NoDotDigitAt(text, e)) =>
                  /\ section.number = SubSeq(text, 1, e - 1)
                  /\ section.filename # <<>>
                  /\ (e > Len(text) => section.title = <<"Section", " ">> \o section.number)
           /\ (e > 0 /\ ~NoDotDigitAt(text, e)) =>
                  /\ section.number = <<>>
                  /\ section.filename = <<>>

\* The headings of the document, in order.
HeadingsOf(lines) == SelectSeq(lines, IsHeading)

\* The errors that _validate_heading_hierarchy reports.
IsHierarchyError(error) ==
    error.message[1] \in {"Document must start with a level 1 heading (book title)",
                          "Invalid heading hierarchy: level "}

\* Heading n is more than one level deeper than the heading before it.
SkipsALevel(headings, n) == n > 1 /\ headings[n].level > headings[n - 1].level + 1

\* C12: for a document with at least one heading, validation reports a
\* hierarchy error exactly when the first heading is not level 1 or some
\* heading is more than one level deeper than the heading just before it; a
\* heading at the same or a shallower level than the previous one causes none.
C12_HierarchyErrors ==
    (result.parser = "validator" /\ HeadingsOf(doc) # <<>>) =>
        LET headings == HeadingsOf(doc)
        IN (\E e \in 1..Len(result.errors) : IsHierarchyError(result.errors[e]))
           <=> \/ headings[1].level # 1
               \/ \E n \in 1..Len(headings) : SkipsALevel(headings, n)

\* A document that starts with its title and skips a level later was
\* validated and the skip reported.
C12_Witness ==
    /\ result.parser = "validator"
    /\ HeadingsOf(doc) # <<>>
    /\ HeadingsOf(doc)[1].level = 1
    /\ \E n \in 1..Len(HeadingsOf(doc)) : SkipsALevel(HeadingsOf(doc), n)
    /\ \E n \in 2..Len(HeadingsOf(doc)) : HeadingsOf(doc)[n].level <= HeadingsOf(doc)[n - 1].level
    /\ \E e \in 1..Len(result.errors) : IsHierarchyError(result.errors[e])

(***************************************************************************)
(* Properties of what the parsers return.                                  *)
(***************************************************************************)
\* C13: an outline that a parser returns has a non-empty title, and for a
\* document with no level-1 heading either parser fails instead of returning
\* an outline.
C13_TitleNeverEmpty ==
    result.parser \in {"lines", "marko"} =>
        /\ ~result.raised => result.title # <<>>
        /\ HeadingLines(doc, 1) = {} => result.raised

\* C14: MarkoOutlineParser returns an outline for every document that has a
\* level-1 heading with non-empty text, whatever lies between its headings.
C14_MarkoOnlyFailsWithoutTitle ==
    (result.parser = "marko" /\ \E n \in HeadingLines(doc, 1) : doc[n].text # <<>>) =>
        ~result.raised

(***************************************************************************)
(* The order of the files of one conversion.  log lists the calls of       *)
(* backup_and_write_file of the current convert_outline, in order.         *)
(***************************************************************************)
\* Chapter i's index, then its section files in document order.
ChapterOrder(o, im, i) ==
    << [path |-> ChapterPath(o, i), text |-> ChapterText(o, im, i)] >>
    \o [j \in 1..NumSections(o, i) |-> [path |-> SectionPath(o, i, j), text |-> SectionText(o, im, i, j)]]

RECURSIVE ChaptersOrder(_, _, _)
ChaptersOrder(o, im, n) ==
    IF n = 0 THEN <<>> ELSE ChaptersOrder(o, im, n - 1) \o ChapterOrder(o, im, n)

\* The top-level index, then the chapters in document order.
WriteOrder(o, im) ==
    << [path |-> TopPath, text |-> TopText(o, im)] >> \o ChaptersOrder(o, im, Len(o))

\* The last of the first n files of the order that has path p.
LastAt(order, n, p) == order[Least({ k \in 1..n : \A later \in (k + 1)..n : order[later].path # p }
                                     \cap { k \in 1..n : order[k].path = p }, 1)]

C16_NoTemporaryFileLeft ==
    rst.call.outcome \in {"returned", "FileError"} => rst.temps = {}

\* C17: within one converter, pandoc runs successfully at most once for a
\* text: a text is in the cache exactly when one run for it succeeded (no
\* entry is evicted, a failed call stores none), and a call with a text that
\* is in the cache returns the stored result without running pandoc.
C17_ConvertedOncePerText ==
    /\ \A t \in DOMAIN rst.succeeded :
          /\ rst.succeeded[t] <= 1
          /\ t \in DOMAIN rst.cache <=> rst.succeeded[t] = 1
    /\ rst.call.cached =>
          /\ ~rst.call.invoked
          /\ rst.call.outcome = "returned"
          /\ rst.call.value = rst.cache[rst.call.text]

\* A text was converted, a call for it failed before or after, and the
\* latest call for it was answered from the cache.
C17_Witness ==
    /\ rst.calls = MaxCalls
    /\ rst.call.cached
    /\ rst.succeeded[rst.call.text] = 1
    /\ \E t \in DOMAIN rst.succeeded : t \notin DOMAIN rst.cache /\ ~IsBlank(t)

\* C18: the converter's content cache is empty when convert_outline starts
\* to generate files, also on a converter that has converted before.
C18_CacheEmptyAtStart ==
    pc.step = "top" => cache = {}

(***************************************************************************)
(* Properties of the index files.                                          *)
(***************************************************************************)
\* The toctree entries that start at line k.
EntriesFrom(lines, k) ==
    SubSeq(lines, k, Least({ j \in k..Len(lines) : lines[j].kind # "entry" }, Len(lines) + 1) - 1)

FrontMatter(chapters) == SelectSeq(chapters, LAMBDA c : c.heading_type \in {"prologue", "introduction"})

Appendices(chapters) == SelectSeq(chapters, LAMBDA c : c.heading_type = "appendix")

RegularChapters(chapters) ==
    SelectSeq(chapters, LAMBDA c : c.heading_type \notin {"prologue", "introduction", "appendix"})

\* The listing with this caption is in the lines exactly when it has
\* members, once, and lists "{folder_name}/index" of its members in order.
ListsInOrder(lines, caption, members) ==
    LET at == { k \in 1..Len(lines) : lines[k] = Line(caption) }
    IN IF members = <<>> THEN at = {}
       ELSE /\ Cardinality(at) = 1
            /\ EntriesFrom(lines, Least(at, 0) + 3)
                   = [n \in 1..Len(members) |-> Entry(members[n].folder_name, "index")]

\* C19: the top-level index of MarkoOutlineConverter lists every chapter
\* once as "{folder_name}/index", in one of the listings Front Matter
\* (Prologue, Introduction), Chapters (neither front matter nor Appendix) and
\* Appendices; each listing is in document order and is there only if it has
\* a member.
C19_TopLevelListings ==
    (impl = "marko" /\ pc.step # "idle" /\ Exists(fs, TopPath)) =>
        LET lines == fs[TopPath].text
        IN /\ ListsInOrder(lines, "   :caption: Front Matter", FrontMatter(outline.chapters))
           /\ ListsInOrder(lines, "   :caption: Chapters", RegularChapters(outline.chapters))
           /\ ListsInOrder(lines, "   :caption: Appendices", Appendices(outline.chapters))
           /\ Cardinality({ k \in 1..Len(lines) : lines[k].kind = "entry" }) = Len(outline.chapters)

\* The top-level index was written for an outline with two chapters in one
\* listing and an empty listing.
C19_Witness ==
    /\ impl = "marko"
    /\ pc.step = "done"
    /\ Exists(fs, TopPath)
    /\ Len(RegularChapters(outline.chapters)) = 2
    /\ Len(FrontMatter(outline.chapters)) = 1
    /\ Appendices(outline.chapters) = <<>>
    /\ outline.chapters[1].heading_type = "chapter"

\* Section number a comes before section number b.
NumberBefore(a, b) == a[1] < b[1] \/ (a[1] = b[1] /\ a[2] < b[2])

\* The chapter whose files were written last.
LastWritten == IF pc.step = "chapter" THEN pc.i - 1
               ELSE IF pc.step = "done" THEN Len(outline.chapters) ELSE 0

\* C20: the section listing of a chapter index holds the filenames of the
\* chapter's sections that have a filename, in ascending order of section
\* number, in whatever order the outline has them.
C20_SectionsInNumberingOrder ==
    LastWritten > 0 =>
        LET chapter == outline.chapters[LastWritten]
            lines == fs[RstPath(chapter.folder_name, "index")].text
            numbered == SortSeq(SelectSeq(chapter.sections, LAMBDA section : section.filename # ""),
                                LAMBDA a, b : NumberBefore(a.number, b.number))
        IN SelectSeq(lines, LAMBDA line : line.kind = "entry")
              = [n \in 1..Len(numbered) |-> Entry("", numbered[n].filename)]

(***************************************************************************)
(* Filenames.                                                              *)
(***************************************************************************)
\* C21: for every title the stem of the sanitized filename is non-empty and
\* sanitizing the stem gives the same filename again; a title without any
\* word character gives "section.rst".
C21_SanitizeFixedPoint ==
    result.parser = "sanitize" =>
        /\ Stem(result.filename) # <<>>
        /\ sanitize_filename(Stem(result.filename)) = result.filename
        /\ (\A n \in 1..Len(doc[1].text) : ~IsWordChar(doc[1].text[n])) =>
               result.filename = <<"section", ".rst">>

(***************************************************************************)
(* The content blocks of the line-based parser.                            *)
(***************************************************************************)
\* The line numbers a, a + 1, ..., b.
Range(a, b) == [k \in 1..(b - a + 1) |-> a + k - 1]

\* The first level-2 heading line after line c, the line after the last
\* when there is none.
NextChapterLine(lines, c) ==
    Least({ h \in (c + 1)..Len(lines) : StartsWithHash(lines[h]) /\ lines[h].level = 2 },
          Len(lines) + 1)

\* C22: in the outline of the line-based parser a chapter without numbered
\* sections has as content every line from its heading line up to, but
\* excluding, the next level-2 heading line, or through the last line of
\* the document for the last chapter.
C22_ChapterContentWithoutSections ==
    result.parser = "lines" =>
        \A k \in 1..Len(result.chapters) :
            LET chapter == result.chapters[k]
            IN chapter.sections = <<>> =>
                   chapter.content.lines =
                       Range(chapter.line, NextChapterLine(doc, chapter.line) - 1)

\* The first heading line of level 3 or less after line c, the line after
\* the last when there is none.
NextBoundaryLine(lines, c) ==
    Least({ h \in (c + 1)..Len(lines) : StartsWithHash(lines[h]) /\ lines[h].level <= 3 },
          Len(lines) + 1)

\* C23: in the outline of the line-based parser the content of every
\* numbered section is the lines from its heading line to just before the
\* next heading of level 3 or less, or to the end of its chapter; no line of
\* a following chapter is part of it.
C23_SectionContentRange ==
    result.parser = "lines" =>
        \A k \in 1..Len(result.chapters) :
            \A n \in 1..Len(result.chapters[k].sections) :
                LET section == result.chapters[k].sections[n]
                IN section.content.lines =
                       Range(section.line, NextBoundaryLine(doc, section.line) - 1)

\* Whether line h is the heading of a numbered section.
IsNumberedSectionLine(lines, h) ==
    /\ StartsWithHash(lines[h]) /\ lines[h].level = 3
    /\ SectionMatch(Strip(lines[h].text)).ok

\* The first numbered section heading of the chapter whose heading is line
\* c, 0 when the chapter has none.
FirstNumberedLine(lines, c) ==
    Least({ h \in (c + 1)..(NextChapterLine(lines, c) - 1) : IsNumberedSectionLine(lines, h) }, 0)

\* C24: in the outline of the line-based parser the content of a chapter
\* that has a numbered section is what was extracted when its first
\* numbered section was met, the lines from the chapter heading to just
\* before that section: neither a later unnumbered level-3 heading nor the
\* finalization of the chapter nor the end of the document changes it.
C24_ChapterContentSetOnce ==
    result.parser = "lines" =>
        \A k \in 1..Len(result.chapters) :
            LET chapter == result.chapters[k]
                first == FirstNumberedLine(doc, chapter.line)
            IN first # 0 => chapter.content.lines = Range(chapter.line, first - 1)

(***************************************************************************)
(* Content blocks of both parsers.                                         *)
(***************************************************************************)
\* start position <= end position, for the content block of either parser.
StartsBeforeEnd(parser, content) ==
    IF parser = "lines" THEN content.line_start <= content.line_end
    ELSE content.start_line <= content.end_line

\* C25: every content block of an outline that either parser returns, the
\* introduction, a chapter's content or a section's content, has a start
\* position that is not after its end position.
C25_StartNotAfterEnd ==
    (result.parser \in {"lines", "marko"} /\ ~result.raised) =>
        /\ StartsBeforeEnd(result.parser, result.introduction_content)
        /\ \A k \in 1..Len(result.chapters) :
               /\ StartsBeforeEnd(result.parser, result.chapters[k].content)
               /\ \A n \in 1..Len(result.chapters[k].sections) :
                      StartsBeforeEnd(result.parser, result.chapters[k].sections[n].content)

(***************************************************************************)
(* The heading filters.                                                    *)
(***************************************************************************)
\* A line that echoes the heading that introduced the block: the title
\* alone, or a heading line whose text is the title, with or without the
\* section number in front of it.
EchoesHeading(line) ==
    \/ line.kind = "text" /\ line.text = FilterTitle
    \/ IsHeading(line) /\ line.text = FilterTitle
    \/ IsHeading(line) /\ SectionMatch(line.text).ok /\ SectionMatch(line.text).rest = FilterTitle

Kept(n) == \E k \in 1..Len(result.filtered_lines) : result.filtered_lines[k] = n

\* C26: the filters remove only the lines that echo the introducing heading
\* and an underline row that directly follows a removed heading line; every
\* other line, a later row of dashes or equals signs included, is kept, and
\* the kept lines are in their original order.
C26_FilterRemovesOnlyTheHeading ==
    result.parser = "filter" =>
        /\ \A k \in 1..(Len(result.filtered_lines) - 1) :
               result.filtered_lines[k] < result.filtered_lines[k + 1]
        /\ \A n \in 1..Len(doc) :
               \/ Kept(n)
               \/ EchoesHeading(doc[n])
               \/ /\ IsUnderline(doc[n], {"=", "-"})
                  /\ n > 1 /\ ~Kept(n - 1) /\ EchoesHeading(doc[n - 1])

(***************************************************************************)
(* The two commands compared.                                              *)
(***************************************************************************)
OtherCommand(command) ==
    IF command = "convert-outline" THEN "outline-to-rst" ELSE "convert-outline"

\* C27: for every document the validator accepts, convert-outline and
\* outline-to-rst write the same set of relative file paths, the same
\* chapter folders with the same section files.
C27_SameFilesFromBothCommands ==
    (result.parser \in {"convert-outline", "outline-to-rst"} /\ result.stage = "done") =>
        result.files = WrittenFiles(ParsedBy(OtherCommand(result.parser), doc))

(***************************************************************************)
(* Names of folders and files.                                             *)
(***************************************************************************)
\* A path component that stays in its directory: no separator in it, and
\* not the parent directory.
StaysInside(name) == ~Contains(name, "/") /\ name # <<".", ".">>

ClassifiedFolders ==
    { <<"prologue">>, <<"introduction">> }
    \cup { <<"chapter">> \o ds : ds \in UNION { [1..n -> Digits] : n \in 1..2 } }
    \cup { <<"appendix", letter>> : letter \in UpperLetters \cup LowerLetters }

\* C29: a level-2 heading text that the validator's chapter pattern accepts
\* is given the folder prologue, introduction, chapter<N> or
\* appendix<Letter> by both parsers, never a fallback folder name.
C29_ValidatedHeadingIsClassified ==
    (result.parser = "names" /\ doc[1].level = 2 /\ ChapterPatternMatches(doc[1].text)) =>
        /\ result.named.folder_name \in ClassifiedFolders
        /\ result.named.folder_name
               \notin { <<"unknown">>, <<"chapter_unknown">>, <<"appendix_unknown">> }

(***************************************************************************)
(* The content blocks of MarkoOutlineParser.                               *)
(***************************************************************************)
\* Whether a content block holds the block with number c of the document.
Holds(content, c) == \E k \in 1..Len(content.content) : content.content[k] = c

\* The content blocks of an outline that hold block c: the introduction,
\* chapter k's content, or the content of section n of chapter k.
HoldersOf(o, c) ==
    (IF Holds(o.introduction_content, c) THEN {<<0, 0>>} ELSE {})
    \cup { <<k, 0>> : k \in { k \in 1..Len(o.chapters) : Holds(o.chapters[k].content, c) } }
    \cup UNION { { <<k, n>> : n \in { n \in 1..Len(o.chapters[k].sections) :
                                        Holds(o.chapters[k].sections[n].content, c) } } :
                 k \in 1..Len(o.chapters) }

\* The number of the title among the blocks of the document: the first
\* level-1 heading.
TitleBlock(children) ==
    Least({ c \in 1..Len(children) : IsHeadingLevel(children[c], {1}) }, 0)

\* C30: in the outline MarkoOutlineParser returns, every top-level block of
\* the document after the title is held by exactly one content block: the
\* introduction, one chapter's content or one section's content.
C30_EveryBlockInOneContent ==
    (result.parser = "marko" /\ ~result.raised) =>
        \A c \in (TitleBlock(marko_parse(doc)) + 1)..Len(marko_parse(doc)) :
            Cardinality(HoldersOf(result, c)) = 1

====
